---- MODULE Spec2Model ----
(***************************************************************************)
(* EMFI station: the orchestration layer (WebSocketServer's message        *)
(* handler and WebSocketHelper), the attack executor (AttackWorker.run),   *)
(* the motion controller (Marlin) with its transport exchanges, and the    *)
(* joystick session (Joystick, ContinuousMove).                            *)
(*                                                                         *)
(* Threads: the event loop thread (EL), the dispatched task threads        *)
(* (1..MaxTasks), the joystick loop thread (JOY) and the jog thread (JOG). *)
(* A transport exchange is a command write (MarlinSerial.cmd) followed by  *)
(* the acknowledgement wait (Marlin.__wait_cmd_completed); `link` holds    *)
(* the threads that are inside one.                                        *)
(***************************************************************************)
EXTENDS Integers, Sequences, FiniteSets, TLC

\* ----------------------------------------------------------------- bounds
MaxTasks == 2       \* thread objects that exist at the same time
MaxY == 1           \* the modelled attack sweeps y = 0..MaxY
Reps == 2           \* repetitions per position of the modelled attack

\* -------------------------------------------------------- program constants
MANUAL_MODE == "Manual"
JOYSTICK_MODE == "Joystick"
ATTACK_MODE == "Attack"
Modes == {MANUAL_MODE, JOYSTICK_MODE, ATTACK_MODE}
InitSafeHeight == 100
DefaultMaxTargetTemp == 40

EL == 0                         \* the event loop thread
JOY == 100                      \* the joystick loop thread
JOG == 101                      \* the ContinuousMove thread
Tids == 1..MaxTasks             \* dispatched task threads
NoTask == 0                     \* the never started threading.Thread() of __init__
Threads == Tids \cup {JOY, JOG}

Origin == <<0, 0, 0>>
None == -1000                   \* Python's None where a number is optional

\* ---------------------------------------------------------------- planner
RECURSIVE Reverse(_)
Reverse(s) == IF s = <<>> THEN <<>> ELSE Append(Reverse(Tail(s)), Head(s))

RECURSIVE range_up(_, _, _)
range_up(start, stop, step) ==
    IF start < stop THEN <<start>> \o range_up(start + step, stop, step) ELSE <<>>

RECURSIVE range_down(_, _, _)
range_down(start, stop, step) ==
    IF start > stop THEN <<start>> \o range_down(start - step, stop, step) ELSE <<>>

range_rounded(start, stop, step) ==
    (IF start < stop THEN range_up(start, stop, step)
                     ELSE range_down(start, stop, step)) \o <<stop>>

RECURSIVE plan_row(_, _, _)
plan_row(x, ys, z) ==
    IF ys = <<>> THEN <<>> ELSE << <<x, Head(ys), z>> >> \o plan_row(x, Tail(ys), z)

\* a layer whose rows all run in the same direction
RECURSIVE plan_layer_raster(_, _, _)
plan_layer_raster(xs, ys, z) ==
    IF xs = <<>> THEN <<>>
    ELSE plan_row(Head(xs), ys, z) \o plan_layer_raster(Tail(xs), ys, z)

RECURSIVE plan_layer(_, _, _)
plan_layer(xs, ys, z) ==
    IF xs = <<>> THEN <<>>
    ELSE plan_row(Head(xs), ys, z) \o plan_layer(Tail(xs), Reverse(ys), z)

RECURSIVE plan_layers(_, _, _)
plan_layers(zs, xs, ys) ==
    IF zs = <<>> THEN <<>>
    ELSE plan_layer(xs, ys, Head(zs))
         \o plan_layers(Tail(zs), Reverse(xs),
                        IF Len(xs) % 2 = 1 THEN Reverse(ys) ELSE ys)

compute_positions(start, stop, step) ==
    plan_layers(range_rounded(start[3], stop[3], step),
                range_rounded(start[1], stop[1], step),
                range_rounded(start[2], stop[2], step))

\* ------------------------------------------------------- attack registry
\* "A" is an attack class whose constructor takes no arguments, "Bad" one
\* whose constructor still requires arguments (cls() raises TypeError), and
\* "Nope" is no registered name (get_attack_by_name returns None).
AttackNames == {"A", "Bad", "Nope"}
NoAttack == "None"

\* the parameters an attack passes to Attack.__init__; "High" is an attack
\* whose plan lies at Z = 1 and that repeats once more at every position
AttackOf(name) ==
    [start_pos |-> IF name = "High" THEN <<0, 0, 1>> ELSE Origin,
     end_pos |-> IF name = "High" THEN <<0, MaxY, 1>> ELSE <<0, MaxY, 0>>,
     step_size |-> 1,
     repetitions |-> IF name = "High" THEN Reps + 1 ELSE Reps,
     max_target_temp |-> DefaultMaxTargetTemp]

\* a load_attack that lets every constructor through
load_unchecked(name) == TRUE

load_ok(name) == name = "A"

Temps == {30, 50}


\* ------------------------------------------------------------------ state
VARIABLES
    mode,               \* State.mode
    state_position,     \* State.position
    state_progress,     \* State.progress, a fraction [n, d]
    state_safe_z,       \* State.safe_z
    task,               \* WebSocketHelper.task: the thread in the task slot
    threads,            \* the thread objects dispatched into the task slot
    joystick,           \* WebSocketHelper.joystick is not None
    joy_running,        \* Joystick.running
    attack,             \* AttackWorker.attack: the loaded attack
    running,            \* AttackWorker.running
    progress,           \* AttackWorker.progress, a fraction [n, d]
    position,           \* AttackWorker.position
    safe_height,        \* Marlin.safe_height
    link,               \* threads inside a transport exchange
    el_pc,              \* where the event loop thread is
    reply,              \* what the handler sent back for the last control command
    stick,              \* the Joystick object: last_event, stepping, the event at hand
    jog,                \* Marlin.continuous_movement and its ContinuousMove object
    fw,                 \* the firmware: stage position, addressing mode, unanswered commands
    rx,                 \* the lines waiting in the serial input buffer
    mc,                 \* the Marlin call in progress and where it is
    wt,                 \* one __wait_cmd_completed loop and the lines it has read
    grid,               \* one compute_positions call: its arguments and its result
    connected,          \* WebSocketServer.connected
    handlers,           \* where the __connection_handler of each connection is
    cameras,            \* the Microscope and ThermalCamera objects and their threads
    viewer              \* one get_frame / get_last_frame call and what it returned

vars == <<mode, state_position, state_progress, state_safe_z, task, threads,
          joystick, joy_running, attack, running, progress, position,
          safe_height, link, el_pc, reply, stick, jog, fw, rx, mc, wt, grid,
          connected, handlers, cameras, viewer>>

snapshot == <<state_position, state_progress, state_safe_z>>
worker == <<attack, running, progress, position>>
studio == <<connected, handlers, cameras, viewer>>
bench == <<fw, rx, mc, wt, grid, studio>>
pad == <<stick, jog, bench>>

Zero == [n |-> 0, d |-> 1]

\* Joystick.__init__
NewStick == [last_event |-> <<0, 0, 0>>, stepping |-> TRUE, todo |-> <<>>, code |-> 0]

\* Marlin.continuous_movement = None
NoJog == [obj |-> FALSE, active |-> <<0, 0, 0>>, running |-> FALSE]

\* ------------------------------------------------------------ thread objects
FreeThread ==
    [kind |-> "none", pc |-> "free", ops |-> <<>>, inx |-> FALSE, arg |-> Origin,
     i |-> 0, j |-> 0, plan |-> <<>>, calls |-> <<>>, stopReq |-> FALSE,
     hot |-> FALSE, out |-> "none"]

NewThread(kind, arg) == [FreeThread EXCEPT !.kind = kind, !.pc = "begin", !.arg = arg]

\* threading.Thread.is_alive()
is_alive(th) == th.pc \notin {"free", "dead"}

\* WebSocketHelper.is_running
is_running(ts, tk) == tk # NoTask /\ is_alive(ts[tk])

\* a thread object nobody refers to any more is dropped
Collect(ts, tk) ==
    [t \in DOMAIN ts |-> IF t = tk /\ ~is_alive(ts[t]) THEN FreeThread ELSE ts[t]]

FreeIds(ts) == {t \in Tids : ts[t].pc = "free"}

NewId(ts) == CHOOSE t \in FreeIds(ts) : \A u \in FreeIds(ts) : t <= u

\* self.task = threading.Thread(target=...); self.task.start()
Dispatched(kind, arg) ==
    LET ts == Collect(threads, task) IN
    [ts EXCEPT ![NewId(ts)] = NewThread(kind, arg)]

CanDispatch == FreeIds(Collect(threads, task)) # {}

\* the thread's target returns or raises
Dead(out) == [FreeThread EXCEPT !.pc = "dead", !.out = out]

Ended(t, out) ==
    [threads EXCEPT ![t] = IF t = task THEN Dead(out) ELSE FreeThread]

Ready(t, pc) ==
    /\ threads[t].pc = pc
    /\ threads[t].ops = <<>>
    /\ ~threads[t].inx

\* ------------------------------------------------------- motion controller
Axes == {1, 2, 3}

Cmd(op) == [op |-> op, on |-> {}, v |-> Origin]

G0(x, y, z) ==
    [op |-> "G0",
     on |-> {a \in Axes : <<x, y, z>>[a] # None},
     v |-> [a \in Axes |-> IF <<x, y, z>>[a] # None THEN <<x, y, z>>[a] ELSE 0]]

G28(x, y, z) ==
    [op |-> "G28", on |-> {a \in Axes : <<x, y, z>>[a]}, v |-> Origin]

\* Marlin.is_safe_height
is_safe_height(z, sh) == IF z > sh THEN FALSE ELSE TRUE

\* a move that never looks at the safe height
move_unchecked(x, y, z, sh) == <<G0(x, y, z), Cmd("M400")>>

\* Marlin.move: the commands it exchanges
move(x, y, z, sh) ==
    IF z # None /\ ~is_safe_height(z, sh) THEN <<>>
    ELSE <<G0(x, y, z), Cmd("M400")>>

\* Marlin.home: the commands it exchanges
home(x, y, z) ==
    IF x = y /\ y = z /\ ~x THEN <<>> ELSE <<G28(x, y, z)>>

\* ------------------------------------------------------ transport exchanges
\* MarlinSerial.cmd: the thread writes its next command and starts waiting
Send(t) ==
    /\ is_alive(threads[t])
    /\ threads[t].ops # <<>>
    /\ ~threads[t].inx
    /\ threads' = [threads EXCEPT ![t].inx = TRUE]
    /\ link' = link \cup {t}
    /\ UNCHANGED <<pad, mode, snapshot, task, joystick, joy_running, worker,
                   safe_height, el_pc, reply>>

\* Marlin.__wait_cmd_completed reads ok
Ack(t) ==
    /\ threads[t].inx
    /\ threads' = [threads EXCEPT ![t].inx = FALSE, ![t].ops = Tail(@)]
    /\ link' = link \ {t}
    /\ UNCHANGED <<pad, mode, snapshot, task, joystick, joy_running, worker,
                   safe_height, el_pc, reply>>

\* a wait that answers its timeout by sending the command again
Timeout_retries(t) ==
    /\ threads[t].inx
    /\ threads' = [threads EXCEPT ![t].inx = FALSE]
    /\ link' = link \ {t}
    /\ UNCHANGED <<pad, mode, snapshot, task, joystick, joy_running, worker,
                   safe_height, el_pc, reply>>

\* Marlin.__wait_cmd_completed raises IOError: the thread's target ends
Timeout(t) ==
    /\ threads[t].inx
    /\ threads' = Ended(t, "timeout")
    /\ link' = link \ {t}
    /\ UNCHANGED <<pad, mode, snapshot, task, joystick, joy_running, worker,
                   safe_height, el_pc, reply>>

\* ------------------------------------------------------------ manual tasks
ThreadStep(t, th) ==
    /\ threads' = [threads EXCEPT ![t] = th]
    /\ UNCHANGED <<pad, mode, snapshot, task, joystick, joy_running, worker,
                   safe_height, link, el_pc, reply, stick, jog>>

\* target=self.marlin.move
T_move(t) ==
    /\ threads[t].kind = "move" /\ Ready(t, "begin")
    /\ LET a == threads[t].arg IN
       ThreadStep(t, [threads[t] EXCEPT !.ops = move(a[1], a[2], a[3], safe_height),
                                        !.pc = "return"])

\* target=self.marlin.home
T_home(t) ==
    /\ threads[t].kind = "home" /\ Ready(t, "begin")
    /\ LET a == threads[t].arg IN
       ThreadStep(t, [threads[t] EXCEPT !.ops = home(a[1] = 1, a[2] = 1, a[3] = 1),
                                        !.pc = "return"])

\* target=self.marlin.relative_move: pos = self.get_position()
T_step_position(t) ==
    /\ threads[t].kind = "step" /\ Ready(t, "begin")
    /\ ThreadStep(t, [threads[t] EXCEPT !.ops = <<Cmd("M114")>>, !.pc = "relative_on"])

\* relative_move: the safe height check only logs; then relative_mode(True)
T_step_relative_on(t) ==
    /\ Ready(t, "relative_on")
    /\ ThreadStep(t, [threads[t] EXCEPT !.ops = <<Cmd("G91")>>, !.pc = "relative_move"])

\* relative_move: self.move(x, y, z, feed_rate)
T_step_move(t) ==
    /\ Ready(t, "relative_move")
    /\ LET a == threads[t].arg IN
       ThreadStep(t, [threads[t] EXCEPT !.ops = move(a[1], a[2], a[3], safe_height),
                                        !.pc = "relative_off"])

\* relative_move: relative_mode(False)
T_step_relative_off(t) ==
    /\ Ready(t, "relative_off")
    /\ ThreadStep(t, [threads[t] EXCEPT !.ops = <<Cmd("G90")>>, !.pc = "return"])

\* the target returns
T_return(t) ==
    /\ Ready(t, "return")
    /\ threads' = Ended(t, "returned")
    /\ UNCHANGED <<pad, mode, snapshot, task, joystick, joy_running, worker,
                   safe_height, link, el_pc, reply, stick, jog>>

\* ---------------------------------------------------------- attack executor
Log(th, entry) == [th EXCEPT !.calls = Append(@, entry)]

\* a loop that keeps the first position
Pos_first(th) == th.plan[1]

\* pos of the enumerate loop
Pos(th) == th.plan[th.i + 1]

Call(name) == <<name, <<>>>>
CallAt(name, pos) == <<name, pos>>

RunStep(t, th) ==
    /\ threads' = [threads EXCEPT ![t] = th]
    /\ UNCHANGED <<pad, mode, snapshot, task, joystick, joy_running, attack,
                   safe_height, link, el_pc, reply, stick, jog>>

RunEnd(t, out) ==
    /\ threads' = Ended(t, out)
    /\ UNCHANGED <<pad, mode, snapshot, task, joystick, joy_running, attack,
                   safe_height, link, el_pc, reply, stick, jog>>

\* run: progress = 0, running = True, the log file, set_fan_speed
R_start(t) ==
    /\ threads[t].kind = "attack" /\ Ready(t, "begin")
    /\ progress' = Zero
    /\ running' = TRUE
    /\ UNCHANGED position
    /\ RunStep(t, [Log(Log(threads[t], Call("log_open")), Call("set_fan_speed"))
                     EXCEPT !.ops = <<Cmd("M106")>>, !.pc = "init"])

\* run: compute_positions, attack.init(), __move_to_start: home(z=True)
R_init(t) ==
    /\ Ready(t, "init")
    /\ LET a == AttackOf(attack) IN
       RunStep(t, [Log(Log(threads[t], Call("init")), Call("home_z"))
                     EXCEPT !.plan = compute_positions(a.start_pos, a.end_pos, a.step_size),
                            !.ops = home(FALSE, FALSE, TRUE),
                            !.pc = "home_xy"])
    /\ UNCHANGED <<pad, progress, running, position>>

\* __move_to_start: home(x=True, y=True, z=False)
R_home_xy(t) ==
    /\ Ready(t, "home_xy")
    /\ RunStep(t, [Log(threads[t], Call("home_xy"))
                     EXCEPT !.ops = home(TRUE, TRUE, FALSE), !.pc = "start_x"])
    /\ UNCHANGED <<pad, progress, running, position>>

\* __move_to_start: move(x=start_pos[0])
R_start_x(t) ==
    /\ Ready(t, "start_x")
    /\ RunStep(t, [Log(threads[t], Call("start_x"))
                     EXCEPT !.ops = move(AttackOf(attack).start_pos[1], None, None, safe_height),
                            !.pc = "start_y"])
    /\ UNCHANGED <<pad, progress, running, position>>

\* __move_to_start: move(y=start_pos[1])
R_start_y(t) ==
    /\ Ready(t, "start_y")
    /\ RunStep(t, [Log(threads[t], Call("start_y"))
                     EXCEPT !.ops = move(None, AttackOf(attack).start_pos[2], None, safe_height),
                            !.pc = "start_z"])
    /\ UNCHANGED <<pad, progress, running, position>>

\* __move_to_start: move(z=start_pos[2])
R_start_z(t) ==
    /\ Ready(t, "start_z")
    /\ RunStep(t, [Log(threads[t], Call("start_z"))
                     EXCEPT !.ops = move(None, None, AttackOf(attack).start_pos[3], safe_height),
                            !.i = 0,
                            !.pc = "position"])
    /\ UNCHANGED <<pad, progress, running, position>>

\* for i, pos in enumerate(positions): self.marlin.move(*pos, 100)
R_position(t) ==
    /\ Ready(t, "position")
    /\ threads[t].i < Len(threads[t].plan)
    /\ LET pos == Pos(threads[t]) IN
       RunStep(t, [Log(threads[t], CallAt("move", pos))
                     EXCEPT !.ops = move(pos[1], pos[2], pos[3], safe_height),
                            !.pc = "moved"])
    /\ UNCHANGED <<pad, progress, running, position>>

\* self.position = pos
R_moved(t) ==
    /\ Ready(t, "moved")
    /\ position' = Pos(threads[t])
    /\ RunStep(t, [threads[t] EXCEPT !.j = 0, !.pc = "repetition"])
    /\ UNCHANGED <<pad, progress, running>>

\* a repetition that counts the shouts made so far and the one it starts
R_repetition_counts_shouts(t) ==
    /\ Ready(t, "repetition")
    /\ threads[t].j < AttackOf(attack).repetitions
    /\ progress' = [n |-> threads[t].i * AttackOf(attack).repetitions + threads[t].j + 1,
                    d |-> Len(threads[t].plan) * AttackOf(attack).repetitions]
    /\ IF ~running
       THEN RunEnd(t, "stopped")
       ELSE RunStep(t, [threads[t] EXCEPT !.pc = "reset_target"])
    /\ UNCHANGED <<pad, running, position>>

\* for j in range(repetitions): progress = ...; if not self.running: return
R_repetition(t) ==
    /\ Ready(t, "repetition")
    /\ threads[t].j < AttackOf(attack).repetitions
    /\ progress' = [n |-> threads[t].i + threads[t].j,
                    d |-> Len(threads[t].plan) * AttackOf(attack).repetitions]
    /\ IF ~running
       THEN RunEnd(t, "stopped")
       ELSE RunStep(t, [threads[t] EXCEPT !.pc = "reset_target"])
    /\ UNCHANGED <<pad, running, position>>

\* the repetitions of this position are over: the next position
R_next_position(t) ==
    /\ Ready(t, "repetition")
    /\ threads[t].j >= AttackOf(attack).repetitions
    /\ RunStep(t, [threads[t] EXCEPT !.i = @ + 1, !.j = 0, !.pc = "position"])
    /\ UNCHANGED <<pad, progress, running, position>>

\* reset_target(), shout(), was_successful() and the log line
R_shout(t) ==
    /\ Ready(t, "reset_target")
    /\ RunStep(t, [Log(Log(Log(threads[t], CallAt("reset_target", Pos(threads[t]))),
                            CallAt("shout", Pos(threads[t]))),
                        CallAt("was_successful", Pos(threads[t])))
                     EXCEPT !.pc = "critical_check"])
    /\ UNCHANGED <<pad, progress, running, position>>

\* if not self.attack.critical_check(): return
R_critical_check(t) ==
    /\ Ready(t, "critical_check")
    /\ \E ok \in BOOLEAN :
          RunStep(t, [Log(threads[t], CallAt("critical_check", Pos(threads[t])))
                        EXCEPT !.pc = IF ok THEN "check_temp" ELSE "critical"])
    /\ UNCHANGED <<pad, progress, running, position>>

\* a run that logs the failed critical check and goes on
R_critical_goes_on(t) ==
    /\ Ready(t, "critical")
    /\ RunStep(t, [threads[t] EXCEPT !.pc = "check_temp"])
    /\ UNCHANGED <<pad, progress, running, position>>

\* a failed critical check that ends the run through the attack's shutdown
R_critical_shuts_down(t) ==
    /\ Ready(t, "critical")
    /\ RunStep(t, [Log(threads[t], Call("shutdown")) EXCEPT !.pc = "close"])
    /\ UNCHANGED <<pad, progress, running, position>>

\* self.log.critical('Critical attack check failed.'); return
R_critical(t) ==
    /\ Ready(t, "critical")
    /\ RunEnd(t, "critical")
    /\ UNCHANGED <<pad, progress, running, position>>

\* AttackWorker.__check_temp
check_temp(temp, max) == IF temp > max THEN FALSE ELSE TRUE

\* a cooldown that costs the next repetition
sleep_skips(t) ==
    RunStep(t, [threads[t] EXCEPT !.hot = TRUE, !.j = @ + 2, !.pc = "repetition"])

\* time.sleep(20): the thread is delayed, then goes on with the next repetition
sleep(t) == RunStep(t, [threads[t] EXCEPT !.hot = TRUE, !.j = @ + 1, !.pc = "repetition"])

\* if not self.__check_temp(): time.sleep(20)
R_check_temp(t) ==
    /\ Ready(t, "check_temp")
    /\ \E temp \in Temps :
          IF ~check_temp(temp, AttackOf(attack).max_target_temp)
          THEN sleep(t)
          ELSE RunStep(t, [threads[t] EXCEPT !.j = @ + 1, !.pc = "repetition"])
    /\ UNCHANGED <<pad, progress, running, position>>

\* after all positions: self.attack.shutdown()
R_shutdown(t) ==
    /\ Ready(t, "position")
    /\ threads[t].i >= Len(threads[t].plan)
    /\ RunStep(t, [Log(threads[t], Call("shutdown")) EXCEPT !.pc = "close"])
    /\ UNCHANGED <<pad, progress, running, position>>

\* self.a_log.close(): run returns
R_close(t) ==
    /\ Ready(t, "close")
    /\ RunEnd(t, "finished")
    /\ UNCHANGED <<pad, progress, running, position>>


\* ----------------------------------------------------------- orchestration
Commands == {"enableJoystick", "disableJoystick", "step", "home", "move",
             "startAttack", "stopAttack", "safeZ"}

StepArgs == {<<0, 0, 1>>}
MoveArgs == {<<0, 0, 0>>, <<0, 1, 1>>}
HomeArgs == {<<0, 0, 0>>, <<1, 1, 1>>}
SafeZs == {0}

\* what the controller reports as its position; the origin also stands for
\* a reply get_position cannot split
Reported == {Origin, <<0, MaxY, 1>>}

\* State.attack_enabled, State.joystick_enabled
attack_enabled(m) == IF m = ATTACK_MODE THEN TRUE ELSE FALSE
joystick_enabled(m) == IF m = JOYSTICK_MODE THEN TRUE ELSE FALSE

\* the guard of step, home and move
manual_admitted(m) == ~(attack_enabled(m) /\ joystick_enabled(m))

\* a guard of enable_joystick and start_attack written like that of step
exclusive_admitted_as_manual(m) == ~(attack_enabled(m) /\ joystick_enabled(m))

\* the guard of enable_joystick and of start_attack
exclusive_admitted(m) == ~(attack_enabled(m) \/ joystick_enabled(m))

\* a handler that never looks at the task slot
handler_busy_never(c, ts, tk) == FALSE

\* a handler that lets safeZ through as it does disableJoystick and stopAttack
handler_busy_but_safeZ(c, ts, tk) ==
    is_running(ts, tk) /\ c \notin {"disableJoystick", "stopAttack", "safeZ"}

\* __message_handler: another operation is still running
handler_busy(c, ts, tk) ==
    is_running(ts, tk) /\ c # "disableJoystick" /\ c # "stopAttack"

\* an update that asks the controller for its position whatever the mode and
\* whether or not a task is alive
update_queries(m, running_now, pc) ==
    /\ state_progress' = IF attack_enabled(m) THEN progress ELSE state_progress
    /\ state_position' = IF attack_enabled(m) THEN position ELSE state_position
    /\ mode' = IF attack_enabled(m) /\ ~running_now THEN MANUAL_MODE ELSE m
    /\ el_pc' = pc
    /\ link' = link \cup {EL}

\* an update that copies the executor's figures and never leaves Attack mode
update_keeps_mode(m, running_now, pc) ==
    /\ state_progress' = IF attack_enabled(m) THEN progress ELSE state_progress
    /\ state_position' = IF attack_enabled(m) THEN position ELSE state_position
    /\ mode' = m
    /\ el_pc' = "idle"
    /\ link' = link

\* WebSocketHelper.update with the mode m and the task liveness the command left
update(m, running_now, pc) ==
    IF attack_enabled(m)
    THEN /\ state_progress' = progress
         /\ state_position' = position
         /\ mode' = IF ~running_now THEN MANUAL_MODE ELSE m
         /\ el_pc' = "idle"
         /\ link' = link
    ELSE IF ~running_now
    THEN /\ mode' = m
         /\ el_pc' = pc
         /\ link' = link \cup {EL}
         /\ UNCHANGED <<pad, state_progress, state_position>>
    ELSE /\ mode' = m
         /\ el_pc' = "idle"
         /\ UNCHANGED <<pad, link, state_progress, state_position>>

\* __consumer: the next control message of a client
Received(c) == el_pc = "idle"

\* What the handler sent back: no error ("ok"), one of its three error messages
\* ("busy", "invalid", "failed"), nothing yet ("pending") or nothing at all because
\* it raised. With "failed" goes the helper method that returned False and the
\* mode it was called in.
Reply(answer) == [answer |-> answer, cmd |-> "any", mode |-> "any"]

NoReply == Reply("none")

\* 'Please wait until the previous action terminates.' and return
Refused(c) ==
    /\ reply' = Reply("busy")
    /\ UNCHANGED <<pad, mode, snapshot, task, threads, joystick, joy_running, worker,
                   safe_height, link, el_pc>>

\* except ValueError: 'Please provide valid values.', then the state update
Invalid(c) ==
    /\ reply' = Reply("invalid")
    /\ update(mode, is_running(threads, task), "query")
    /\ UNCHANGED <<pad, state_safe_z, task, threads, joystick, joy_running, worker,
                   safe_height>>

\* the helper returned False: 'An error occurred.', then the state update
Failed(c) ==
    /\ reply' = [answer |-> "failed", cmd |-> c, mode |-> mode]
    /\ update(mode, is_running(threads, task), "query")
    /\ UNCHANGED <<pad, state_safe_z, task, threads, joystick, joy_running, worker,
                   safe_height>>

\* WebSocketHelper.step, home and move
Manual(kind, arg) ==
    IF manual_admitted(mode)
    THEN /\ CanDispatch
         /\ threads' = Dispatched(kind, arg)
         /\ task' = NewId(Collect(threads, task))
         /\ reply' = Reply("ok")
         /\ update(mode, TRUE, "query")
         /\ UNCHANGED <<pad, state_safe_z, joystick, joy_running, worker, safe_height>>
    ELSE Failed(kind)

H_step ==
    /\ Received("step")
    /\ IF handler_busy("step", threads, task) THEN Refused("step")
       ELSE \E valid \in BOOLEAN, arg \in StepArgs :
               IF valid THEN Manual("step", arg) ELSE Invalid("step")

H_home ==
    /\ Received("home")
    /\ IF handler_busy("home", threads, task) THEN Refused("home")
       ELSE \E arg \in HomeArgs : Manual("home", arg)

H_move ==
    /\ Received("move")
    /\ IF handler_busy("move", threads, task) THEN Refused("move")
       ELSE \E valid \in BOOLEAN, arg \in MoveArgs :
               IF valid THEN Manual("move", arg) ELSE Invalid("move")

\* WebSocketHelper.enable_joystick; threading.Thread(target=self.joystick.loop)
\* raises AttributeError: Joystick has no attribute loop (its loop is the
\* private __loop), so the handler ends there, without a reply
enable_joystick(present) ==
    IF ~exclusive_admitted(mode) THEN Failed("enableJoystick")
    ELSE IF ~joystick /\ ~present THEN Failed("enableJoystick")
    ELSE /\ joystick' = TRUE
         /\ joy_running' = TRUE
         /\ reply' = Reply("raised")
         /\ UNCHANGED <<pad, mode, snapshot, task, threads, worker, safe_height, link, el_pc>>

H_enableJoystick ==
    /\ Received("enableJoystick")
    /\ IF handler_busy("enableJoystick", threads, task) THEN Refused("enableJoystick")
       ELSE \E valid \in BOOLEAN, present \in BOOLEAN :
               IF valid THEN enable_joystick(present) ELSE Invalid("enableJoystick")

\* WebSocketHelper.disable_joystick up to self.task.join(); joining the never
\* started thread of __init__ raises RuntimeError
disable_joystick ==
    IF joystick
    THEN /\ joy_running' = FALSE
         /\ IF task = NoTask
            THEN reply' = Reply("raised") /\ el_pc' = "idle"
            ELSE reply' = Reply("pending") /\ el_pc' = "join"
         /\ UNCHANGED <<pad, mode, snapshot, task, threads, joystick, worker,
                        safe_height, link>>
    ELSE /\ reply' = Reply("ok")
         /\ update(MANUAL_MODE, is_running(threads, task), "query")
         /\ UNCHANGED <<pad, state_safe_z, task, threads, joystick, joy_running, worker,
                        safe_height>>

H_disableJoystick ==
    /\ Received("disableJoystick")
    /\ disable_joystick

\* AttackWorker.load_attack and the dispatch of AttackWorker.run
start_attack(name) ==
    IF ~exclusive_admitted(mode) THEN Failed("startAttack")
    ELSE IF ~load_ok(name) THEN Failed("startAttack")
    ELSE /\ CanDispatch
         /\ attack' = name
         /\ threads' = Dispatched("attack", Origin)
         /\ task' = NewId(Collect(threads, task))
         /\ reply' = Reply("ok")
         /\ update(ATTACK_MODE, TRUE, "query")
         /\ UNCHANGED <<pad, state_safe_z, joystick, joy_running, running, progress,
                        position, safe_height>>

H_startAttack ==
    /\ Received("startAttack")
    /\ IF handler_busy("startAttack", threads, task) THEN Refused("startAttack")
       ELSE \E name \in AttackNames : start_attack(name)

\* AttackWorker.stop
stop(ts, tk) ==
    IF tk # NoTask /\ ts[tk].kind = "attack" /\ is_alive(ts[tk])
    THEN [ts EXCEPT ![tk].stopReq = TRUE]
    ELSE ts

\* a stop_attack that does not look at the mode
stop_attack_in_any_mode ==
    /\ running' = FALSE
    /\ threads' = stop(threads, task)
    /\ reply' = Reply("pending")
    /\ el_pc' = "join"
    /\ UNCHANGED <<pad, mode, snapshot, task, joystick, joy_running, attack,
                   progress, position, safe_height, link>>

\* WebSocketHelper.stop_attack up to self.task.join()
stop_attack ==
    IF attack_enabled(mode)
    THEN /\ running' = FALSE
         /\ threads' = stop(threads, task)
         /\ reply' = Reply("pending")
         /\ el_pc' = "join"
         /\ UNCHANGED <<pad, mode, snapshot, task, joystick, joy_running, attack,
                        progress, position, safe_height,
                        link>>
    ELSE Failed("stopAttack")

H_stopAttack ==
    /\ Received("stopAttack")
    /\ stop_attack

\* stop_attack and disable_joystick after self.task.join() has returned:
\* the mode is Manual, the helper returns True, then the state update
EL_joined ==
    /\ el_pc = "join"
    /\ ~is_running(threads, task)
    /\ reply' = Reply("ok")
    /\ update(MANUAL_MODE, is_running(threads, task), "query")
    /\ UNCHANGED <<pad, state_safe_z, task, threads, joystick, joy_running, worker,
                   safe_height>>

\* WebSocketHelper.set_safe_z
set_safe_z(z) ==
    /\ safe_height' = z
    /\ state_safe_z' = z
    /\ reply' = Reply("ok")
    /\ update(mode, is_running(threads, task), "query")
    /\ UNCHANGED <<pad, task, threads, joystick, joy_running, worker>>

H_safeZ ==
    /\ Received("safeZ")
    /\ IF handler_busy("safeZ", threads, task) THEN Refused("safeZ")
       ELSE \E valid \in BOOLEAN, z \in SafeZs :
               IF valid THEN set_safe_z(z) ELSE Invalid("safeZ")

\* a command none of the handler's branches names, such as 'emergency':
\* after the busy check success stays False, then the state update
H_emergency ==
    /\ Received("emergency")
    /\ IF handler_busy("emergency", threads, task) THEN Refused("emergency")
       ELSE Failed("emergency")

\* __state_producer: the state broadcast of every second
Poll ==
    /\ el_pc = "idle"
    /\ update(mode, is_running(threads, task), "poll_query")
    /\ UNCHANGED <<pad, state_safe_z, task, threads, joystick, joy_running, worker,
                   safe_height, reply>>

\* update: Marlin.get_position returns the reported position, or the origin
\* for a reply it cannot split
EL_position ==
    /\ el_pc \in {"query", "poll_query"}
    /\ \E pos \in Reported : state_position' = pos
    /\ link' = link \ {EL}
    /\ el_pc' = "idle"
    /\ UNCHANGED <<pad, mode, state_progress, state_safe_z, task, threads, joystick,
                   joy_running, worker, safe_height, reply>>

\* update: Marlin.get_position raises IOError out of the state update
EL_position_timeout ==
    /\ el_pc \in {"query", "poll_query"}
    /\ link' = link \ {EL}
    /\ el_pc' = "idle"
    /\ reply' = IF el_pc = "query" THEN Reply("raised") ELSE reply
    /\ UNCHANGED <<pad, mode, snapshot, task, threads, joystick, joy_running, worker,
                   safe_height>>

\* --------------------------------------------------------- joystick session
BUTTON_FIRE == 288
BUTTON_2 == 289
BUTTON_3 == 290
BUTTON_4 == 291
BUTTON_5 == 292
BUTTON_6 == 293
BUTTON_7 == 294
BUTTON_8 == 295
BUTTON_9 == 296
BUTTON_10 == 297
BUTTON_11 == 298

\* the codes of the events read: a button pressed, or 0 for no press
Codes == {0, BUTTON_FIRE, BUTTON_2, BUTTON_5, BUTTON_6, BUTTON_7, BUTTON_8,
          BUTTON_9, BUTTON_10, BUTTON_11}

\* absinfo values: deflected backwards, centred, deflected forwards
AxisValues == {20, 128, 230}

\* the step distance of the session
StepDist == 1

\* what the orchestration and the executor own
sys == <<mode, snapshot, task, joystick, worker, safe_height, el_pc, reply, bench>>

\* __eval_axles for one axis: the directions handed to continuous_update
axle_calls(v, le) ==
    LET f1 == v > 215 /\ le = 0
        s1 == IF f1 THEN 1 ELSE le
        f2 == v < 175 /\ s1 = 1
        s2 == IF f2 THEN 0 ELSE s1
        f3 == v < 40 /\ s2 = 0
        s3 == IF f3 THEN -1 ELSE s2
        f4 == v > 80 /\ s3 = -1
    IN  (IF f1 THEN <<1>> ELSE <<>>) \o (IF f2 THEN <<0>> ELSE <<>>)
        \o (IF f3 THEN <<-1>> ELSE <<>>) \o (IF f4 THEN <<0>> ELSE <<>>)

RECURSIVE on_axis(_, _)
on_axis(a, ds) ==
    IF ds = <<>> THEN <<>> ELSE << <<a, Head(ds)>> >> \o on_axis(a, Tail(ds))

\* __eval_axles: the __move and __halt calls of one event, in order
eval_axles(value, le) ==
    on_axis(1, axle_calls(value[1], le[1]))
    \o on_axis(2, axle_calls(value[2], le[2]))
    \o on_axis(3, axle_calls(value[3], le[3]))

\* ContinuousMove.update: the axes after the update
cm_update(active, a, d) == [active EXCEPT ![a] = d]

\* set(self.active) == {0, 0, 0}
cm_halted(active) == \A a \in Axes : active[a] = 0

\* Joystick.__loop: an event is read
J_event ==
    /\ Ready(JOY, "wait")
    /\ joy_running
    /\ \E value \in [Axes -> AxisValues], code \in Codes :
          stick' = [stick EXCEPT !.todo = eval_axles(value, stick.last_event),
                                 !.code = code]
    /\ threads' = [threads EXCEPT ![JOY].pc = "axles"]
    /\ UNCHANGED <<sys, joy_running, jog, link>>

\* __move or __halt: Marlin.continuous_update for one axis
J_update ==
    /\ Ready(JOY, "axles")
    /\ stick.todo # <<>>
    /\ LET a == Head(stick.todo)[1]
           d == Head(stick.todo)[2]
           active == cm_update(IF jog.obj THEN jog.active ELSE <<0, 0, 0>>, a, d)
       IN
       /\ stick' = [stick EXCEPT !.todo = Tail(@), !.stepping = (d = 0),
                                 !.last_event[a] = d]
       /\ IF ~jog.obj
          THEN IF cm_halted(active)
               THEN \* stop() joins a thread that was never started: RuntimeError
                    /\ jog' = [obj |-> TRUE, active |-> active, running |-> FALSE]
                    /\ threads' = Ended(JOY, "RuntimeError")
               ELSE /\ jog' = [obj |-> TRUE, active |-> active, running |-> TRUE]
                    /\ threads' = [threads EXCEPT ![JOG] = NewThread("jog", Origin)]
          ELSE IF cm_halted(active)
               THEN /\ jog' = [jog EXCEPT !.active = active, !.running = FALSE]
                    /\ threads' = [threads EXCEPT ![JOY].pc = "joining"]
               ELSE /\ jog' = [jog EXCEPT !.active = active]
                    /\ UNCHANGED threads
    /\ UNCHANGED <<sys, joy_running, link>>

\* ContinuousMove.stop: self.thread.join() has returned; continuous_movement = None
J_joined ==
    /\ Ready(JOY, "joining")
    /\ ~is_alive(threads[JOG])
    /\ jog' = NoJog
    /\ threads' = [threads EXCEPT ![JOY].pc = "axles"]
    /\ UNCHANGED <<sys, joy_running, stick, link>>

\* __eval_buttons: the Marlin call of the button, if any
J_button ==
    /\ Ready(JOY, "axles")
    /\ stick.todo = <<>>
    /\ stick' = [stick EXCEPT !.code = 0]
    /\ LET c == stick.code
           th == threads[JOY]
       IN threads' = [threads EXCEPT ![JOY] =
            IF c = BUTTON_FIRE THEN [th EXCEPT !.ops = <<Cmd("M114")>>, !.pc = "called"]
            ELSE IF c = BUTTON_7 THEN [th EXCEPT !.ops = <<Cmd("M410")>>, !.pc = "called"]
            ELSE IF c = 0 \/ ~stick.stepping THEN [th EXCEPT !.pc = "wait"]
            ELSE IF c \in {BUTTON_2, BUTTON_3, BUTTON_4, BUTTON_5}
                 THEN [th EXCEPT !.ops = <<Cmd("M114")>>, !.pc = "type_error"]
            ELSE IF c = BUTTON_8
                 THEN [th EXCEPT !.ops = <<Cmd("M114")>>, !.pc = "relative_on",
                                 !.arg = <<None, None, -StepDist>>]
            ELSE IF c = BUTTON_9
                 THEN [th EXCEPT !.ops = <<Cmd("M114")>>, !.pc = "relative_on",
                                 !.arg = <<None, None, StepDist>>]
            ELSE IF c = BUTTON_6 THEN [th EXCEPT !.ops = home(TRUE, TRUE, TRUE), !.pc = "called"]
            ELSE IF c = BUTTON_10 THEN [th EXCEPT !.ops = <<Cmd("G60")>>, !.pc = "called"]
            ELSE [th EXCEPT !.ops = <<Cmd("G61")>>, !.pc = "called"]]
    /\ UNCHANGED <<sys, joy_running, jog, link>>

JoyStep(th) ==
    /\ threads' = [threads EXCEPT ![JOY] = th]
    /\ UNCHANGED <<sys, joy_running, stick, jog, link>>

\* __step on X or Y: relative_move adds None to the Z position: TypeError
J_type_error ==
    /\ Ready(JOY, "type_error")
    /\ threads' = Ended(JOY, "TypeError")
    /\ UNCHANGED <<sys, joy_running, stick, jog, link>>

\* __step on Z: relative_move goes on with relative_mode(True)
J_relative_on ==
    /\ Ready(JOY, "relative_on")
    /\ JoyStep([threads[JOY] EXCEPT !.ops = <<Cmd("G91")>>, !.pc = "relative_move"])

J_relative_move ==
    /\ Ready(JOY, "relative_move")
    /\ LET a == threads[JOY].arg IN
       JoyStep([threads[JOY] EXCEPT !.ops = move(a[1], a[2], a[3], safe_height),
                                    !.pc = "relative_off"])

J_relative_off ==
    /\ Ready(JOY, "relative_off")
    /\ JoyStep([threads[JOY] EXCEPT !.ops = <<Cmd("G90")>>, !.pc = "called"])

\* the Marlin call of the button has returned
J_called ==
    /\ Ready(JOY, "called")
    /\ JoyStep([threads[JOY] EXCEPT !.pc = "wait", !.arg = Origin])

\* __loop: while self.running is over
J_exit ==
    /\ Ready(JOY, "wait")
    /\ ~joy_running
    /\ threads' = Ended(JOY, "finished")
    /\ UNCHANGED <<sys, joy_running, stick, jog, link>>

\* Joystick.stop: self.running = False
JoyStop ==
    /\ joy_running
    /\ joy_running' = FALSE
    /\ UNCHANGED <<sys, threads, stick, jog, link>>

JogStep(th) ==
    /\ threads' = [threads EXCEPT ![JOG] = th]
    /\ UNCHANGED <<sys, joy_running, stick, jog, link>>

\* ContinuousMove.__run: relative_mode(True)
C_relative_on ==
    /\ threads[JOG].kind = "jog" /\ Ready(JOG, "begin")
    /\ JogStep([threads[JOG] EXCEPT !.ops = <<Cmd("G91")>>, !.pc = "loop"])

\* while self.running: continuous_move writes G0 and M400 and waits once
C_move ==
    /\ Ready(JOG, "loop")
    /\ jog.running
    /\ JogStep([threads[JOG] EXCEPT !.ops = <<Cmd("G0 M400")>>])

\* the loop is over: relative_mode(False)
C_relative_off ==
    /\ Ready(JOG, "loop")
    /\ ~jog.running
    /\ JogStep([threads[JOG] EXCEPT !.ops = <<Cmd("G90")>>, !.pc = "return"])

\* ------------------------------------------- continuous_update, any caller
\* Marlin.continuous_update called with any arguments, one call after the
\* other; mc is the call and how it ended.
JogArgs == [Axes -> {None, -1, 0, 1}]

\* ContinuousMove.update: the axes after an update of all three
cm_update_all(active, d) == [a \in Axes |-> IF d[a] # None THEN d[a] ELSE active[a]]

U_call(pc, out) ==
    [pc |-> pc, call |-> "continuous_update", arg |-> Origin, todo |-> <<>>,
     counter |-> 0, sent |-> <<>>, got |-> [kind |-> "", p |-> Origin],
     critical |-> FALSE, out |-> out]

\* Marlin.continuous_update(x, y, z) up to the join of ContinuousMove.stop.
\* A ContinuousMove object that exists and is not running has a thread that
\* was never started: joining it raises RuntimeError.
U_update ==
    /\ mc.pc = "idle"
    /\ \E d \in JogArgs :
          LET active == cm_update_all(IF jog.obj THEN jog.active ELSE <<0, 0, 0>>, d) IN
          IF ~jog.obj
          THEN IF cm_halted(active)
               THEN /\ jog' = [obj |-> TRUE, active |-> active, running |-> FALSE]
                    /\ threads' = [threads EXCEPT ![JOG] = FreeThread]
                    /\ mc' = U_call("idle", "RuntimeError")
               ELSE /\ jog' = [obj |-> TRUE, active |-> active, running |-> TRUE]
                    /\ threads' = [threads EXCEPT ![JOG] = NewThread("jog", Origin)]
                    /\ mc' = U_call("idle", "returned")
          ELSE IF cm_halted(active)
               THEN /\ jog' = [jog EXCEPT !.active = active, !.running = FALSE]
                    /\ mc' = IF jog.running THEN U_call("joining", "none")
                             ELSE U_call("idle", "RuntimeError")
                    /\ UNCHANGED threads
               ELSE /\ jog' = [jog EXCEPT !.active = active]
                    /\ mc' = U_call("idle", "returned")
                    /\ UNCHANGED threads
    /\ UNCHANGED <<mode, snapshot, task, joystick, joy_running, worker, safe_height,
                   link, el_pc, reply, stick, fw, rx, wt, grid, studio>>

\* ContinuousMove.stop: self.thread.join() has returned; update returns
\* False and continuous_movement = None
U_joined ==
    /\ mc.pc = "joining"
    /\ ~is_alive(threads[JOG])
    /\ jog' = NoJog
    /\ mc' = U_call("idle", "returned")
    /\ UNCHANGED <<mode, snapshot, task, threads, joystick, joy_running, worker,
                   safe_height, link, el_pc, reply, stick, fw, rx, wt, grid, studio>>

\* ------------------------------------------------- controller and firmware
\* One thread calls Marlin.move and Marlin.relative_move, one call after the
\* other.  Every call is the sequence of steps its code takes on the serial
\* port; the firmware answers the commands in the order it received them,
\* each after a delay of its own choosing.
MaxZ == 2           \* the stage travels 0..MaxZ on every axis
max_tries == 2      \* __wait_cmd_completed(max_tries): 10 by default
MaxPending == 1     \* unanswered commands that a new call may find
MaxRx == 2          \* lines the serial input buffer holds

station_core == <<mode, snapshot, task, threads, joystick, joy_running, worker,
                  link, el_pc, reply, stick, jog>>
station == <<station_core, studio>>

Line(kind, p) == [kind |-> kind, p |-> p]
OK_MSG == Line("ok", Origin)
BUSY_MSG == Line("busy", Origin)
NoLine == Line("", Origin)          \* readline() ran into its timeout: b''

\* the firmware at power up
NoFw == [pos |-> Origin, relative |-> FALSE, moving |-> FALSE, queue |-> <<>>]

\* no Marlin call has been made
NoCall ==
    [pc |-> "idle", call |-> "none", arg |-> Origin, todo |-> <<>>, counter |-> 0,
     sent |-> <<>>, got |-> NoLine, critical |-> FALSE, out |-> "none"]

Do(op) == [op |-> op, c |-> Cmd("none")]
Put(c) == [op |-> "cmd", c |-> c]

\* ser.cmd(c) and __wait_cmd_completed(); M400 and G28 are written after
\* ser.clear()
exchange(c) ==
    (IF c.op \in {"M400", "G28"} THEN <<Do("clear")>> ELSE <<>>)
    \o <<Put(c), Do("wait")>>

RECURSIVE exchanges(_)
exchanges(ops) ==
    IF ops = <<>> THEN <<>> ELSE exchange(Head(ops)) \o exchanges(Tail(ops))

\* Marlin.get_position: M114, one line read for the position, the wait
get_position == <<Put(Cmd("M114")), Do("read"), Do("wait")>>

\* Marlin.relative_move: the position, the height check, G91, move, G90
relative_move(x, y, z, sh) ==
    get_position \o <<Do("check")>>
    \o exchange(Cmd("G91")) \o exchanges(move(x, y, z, sh)) \o exchange(Cmd("G90"))

\* one iteration of the loop of __wait_cmd_completed on the line res
wait_cmd_poll(counter, res) ==
    LET c == IF res = BUSY_MSG.kind THEN 0 ELSE counter IN
    IF res = OK_MSG.kind THEN [state |-> "ok", counter |-> c]
    ELSE IF c + 1 > max_tries THEN [state |-> "timeout", counter |-> c + 1]
    ELSE [state |-> "waiting", counter |-> c + 1]

\* MarlinSerial.read: the oldest line of the input buffer, b'' if there is none
read == IF rx = <<>> THEN NoLine ELSE Head(rx)
Rest == IF rx = <<>> THEN <<>> ELSE Tail(rx)

MoveCalls == {<<None, None, z>> : z \in (0..MaxZ) \cup {None}}
RelativeCalls == {<<None, None, z>> : z \in {-1, 1, None}}

Call_begin(name, a, steps) ==
    /\ mc.pc = "idle"
    /\ Len(fw.queue) <= MaxPending
    /\ mc' = [NoCall EXCEPT !.pc = "run", !.call = name, !.arg = a, !.todo = steps]
    /\ UNCHANGED <<station, safe_height, fw, rx, wt, grid>>

\* a call of Marlin.move
M_move(a) == Call_begin("move", a, exchanges(move(a[1], a[2], a[3], safe_height)))

\* a call of Marlin.relative_move
M_relative_move(a) ==
    Call_begin("relative_move", a, relative_move(a[1], a[2], a[3], safe_height))

\* AttackWorker.run up to the first position: set_fan_speed, then
\* __move_to_start: home(z=True), home(x=True, y=True, z=False) and one move
\* for each coordinate of start
move_to_start(start, sh) ==
    exchanges(home(FALSE, FALSE, TRUE)) \o exchanges(home(TRUE, TRUE, FALSE))
    \o exchanges(move(start[1], None, None, sh))
    \o exchanges(move(None, start[2], None, sh))
    \o exchanges(move(None, None, start[3], sh))

\* a run begins: the calls it makes before its first repetition
M_run_start ==
    Call_begin("run_start", Origin,
               exchange(Cmd("M106")) \o move_to_start(AttackOf("A").start_pos, safe_height))

At(op) == mc.pc = "run" /\ mc.todo # <<>> /\ Head(mc.todo).op = op

\* MarlinSerial.cmd
M_cmd ==
    /\ At("cmd")
    /\ fw' = [fw EXCEPT !.queue = Append(@, Head(mc.todo).c)]
    /\ mc' = [mc EXCEPT !.sent = Append(@, Head(mc.todo).c), !.todo = Tail(@)]
    /\ UNCHANGED <<station, safe_height, rx, wt, grid>>

\* MarlinSerial.clear
M_clear ==
    /\ At("clear")
    /\ rx' = <<>>
    /\ mc' = [mc EXCEPT !.todo = Tail(@)]
    /\ UNCHANGED <<station, safe_height, fw, wt, grid>>

\* get_position: pos_str = str(self.ser.read())
M_read ==
    /\ At("read")
    /\ rx' = Rest
    /\ mc' = [mc EXCEPT !.got = read, !.todo = Tail(@)]
    /\ UNCHANGED <<station, safe_height, fw, wt, grid>>

\* __wait_cmd_completed: one iteration of its loop
M_poll ==
    /\ At("wait")
    /\ rx' = Rest
    /\ LET r == wait_cmd_poll(mc.counter, read.kind) IN
       mc' = IF r.state = "ok"
             THEN [mc EXCEPT !.counter = 0, !.todo = <<Do("drain")>> \o Tail(@)]
             ELSE IF r.state = "timeout"
             THEN [mc EXCEPT !.counter = 0, !.todo = <<>>, !.pc = "idle",
                             !.out = "timeout"]
             ELSE [mc EXCEPT !.counter = r.counter]
    /\ UNCHANGED <<station, safe_height, fw, wt, grid>>

\* __wait_cmd_completed: return msg + self.ser.read()
M_drain ==
    /\ At("drain")
    /\ rx' = Rest
    /\ mc' = [mc EXCEPT !.todo = Tail(@)]
    /\ UNCHANGED <<station, safe_height, fw, wt, grid>>

\* get_position parses the line it read; relative_move adds the distance to
\* the Z it returned and logs when the sum is above the safe height
M_check ==
    /\ At("check")
    /\ LET z == mc.arg[3]
           pos == IF mc.got.kind = "pos" THEN mc.got.p ELSE Origin
       IN mc' = IF mc.got.kind = BUSY_MSG.kind
                THEN [mc EXCEPT !.todo = <<>>, !.pc = "idle", !.out = "ValueError"]
                ELSE IF z = None
                THEN [mc EXCEPT !.todo = <<>>, !.pc = "idle", !.out = "TypeError"]
                ELSE [mc EXCEPT !.critical = ~is_safe_height(pos[3] + z, safe_height),
                                !.got = NoLine, !.todo = Tail(@)]
    /\ UNCHANGED <<station, safe_height, fw, rx, wt, grid>>

\* the call returns
M_return ==
    /\ mc.pc = "run" /\ mc.todo = <<>>
    /\ mc' = [mc EXCEPT !.pc = "idle", !.out = "returned"]
    /\ UNCHANGED <<station, safe_height, fw, rx, wt, grid>>

Clamp(v) == IF v < 0 THEN 0 ELSE IF v > MaxZ THEN MaxZ ELSE v

\* where G0 sends the stage: absolute coordinates, or distances after G91
Target(c) ==
    LET to(a) == IF a \in c.on
                 THEN Clamp(IF fw.relative THEN fw.pos[a] + c.v[a] ELSE c.v[a])
                 ELSE fw.pos[a]
    IN <<to(1), to(2), to(3)>>

\* the firmware answers its oldest command: G0 is acknowledged when the move
\* is planned, M400 when all moves have finished
F_reply ==
    /\ fw.queue # <<>>
    /\ LET c == Head(fw.queue) IN
       /\ c.op = "M400" => ~fw.moving
       /\ Len(rx) + (IF c.op = "M114" THEN 2 ELSE 1) <= MaxRx
       /\ fw' = [fw EXCEPT !.queue = Tail(@),
                           !.pos = IF c.op = "G0" THEN Target(c)
                                   ELSE IF c.op = "G28"
                                   THEN [x \in Axes |-> IF x \in c.on THEN 0 ELSE @[x]]
                                   ELSE @,
                           !.moving = IF c.op = "G0" THEN TRUE ELSE @,
                           !.relative = IF c.op = "G91" THEN TRUE
                                        ELSE IF c.op = "G90" THEN FALSE ELSE @]
       /\ rx' = rx \o (IF c.op = "M114" THEN <<Line("pos", fw.pos)>> ELSE <<>>)
                   \o <<OK_MSG>>
    /\ UNCHANGED <<station, safe_height, mc, wt, grid>>

\* the planned moves have finished
F_settle ==
    /\ fw.moving
    /\ fw' = [fw EXCEPT !.moving = FALSE]
    /\ UNCHANGED <<station, safe_height, mc, rx, wt, grid>>

\* the firmware's keepalive while a command is being processed
F_busy ==
    /\ fw.queue # <<>>
    /\ Len(rx) < MaxRx
    /\ IF rx = <<>> THEN TRUE ELSE rx[Len(rx)] # BUSY_MSG
    /\ rx' = Append(rx, BUSY_MSG)
    /\ UNCHANGED <<station, safe_height, fw, mc, wt, grid>>

\* ------------------------------------------------------------ the wait loop
\* One call of __wait_cmd_completed: every iteration reads one line, which
\* is ok, busy, another line of the firmware, or nothing.
MaxPolls == 5       \* iterations of one wait that are followed

Results == {OK_MSG.kind, BUSY_MSG.kind, NoLine.kind, "pos"}

NoWait == [state |-> "none", counter |-> 0, log |-> <<>>]

\* res = self.ser.read() and the rest of the iteration
W_poll ==
    /\ wt.state = "waiting"
    /\ Len(wt.log) < MaxPolls
    /\ \E res \in Results :
         LET r == wait_cmd_poll(wt.counter, res) IN
         wt' = [state |-> r.state, counter |-> r.counter, log |-> Append(wt.log, res)]
    /\ UNCHANGED <<station, safe_height, fw, rx, mc, grid>>

\* ------------------------------------------------------- one planner call
MaxGrid == 2        \* the coordinates and the steps of the planned scans

Points == {<<x, y, z>> : x \in 0..MaxGrid, y \in 0..MaxGrid, z \in 0..MaxGrid}

NoGrid == [start |-> Origin, stop |-> Origin, step |-> 1, out |-> <<>>, done |-> FALSE]

\* positions = compute_positions(start, end, step)
P_compute ==
    /\ ~grid.done
    /\ grid' = [grid EXCEPT !.out = compute_positions(grid.start, grid.stop, grid.step),
                            !.done = TRUE]
    /\ UNCHANGED <<station, safe_height, fw, rx, mc, wt>>

\* ------------------------------------------- a planner call with float steps
\* With a step such as 0.1 the arguments are Python floats: start += step is
\* a binary floating point addition, rounded to the mantissa, and round(x, fp)
\* rounds to fp decimals.  Arguments and samples are written in tenths; a
\* float is the integer n that stands for n / Unit.  The mantissa has
\* Precision bits: like the 53 bits of the program's floats it is one more
\* than a multiple of four, so the period 0011 of the binary expansion of
\* 0.1 is cut at the same place.
Precision == 5
Unit == 2^(Precision + 3)
MaxTenth == 9       \* the largest coordinate of the float scans, in tenths

\* num / den rounded to the nearest float, ties to even
RECURSIVE quantum(_, _, _)
quantum(num, den, q) ==
    IF num < q * 2^Precision * den THEN q ELSE quantum(num, den, 2 * q)

nearest(num, den, q) ==
    LET m == num \div (den * q)
        rem == num - m * den * q
        up == 2 * rem > den * q \/ (2 * rem = den * q /\ m % 2 = 1)
    IN (IF up THEN m + 1 ELSE m) * q

float(num, den) ==
    IF num < 0 THEN 0 - nearest(0 - num, den, quantum(0 - num, den, 1))
    ELSE nearest(num, den, quantum(num, den, 1))

\* round(x, 1) of a float that is not negative, in tenths
round_tenth(x) == nearest(10 * x, Unit, 1)

RECURSIVE range_up_float(_, _, _)
range_up_float(start, last, step) ==
    IF start < last
    THEN <<round_tenth(start)>> \o range_up_float(float(start + step, 1), last, step)
    ELSE <<>>

RECURSIVE range_down_float(_, _, _)
range_down_float(start, last, step) ==
    IF start > last
    THEN <<round_tenth(start)>> \o range_down_float(float(start - step, 1), last, step)
    ELSE <<>>

\* range_rounded on floats given in tenths; the last sample is round(last, fp)
range_rounded_float(start, last, step) ==
    LET a == float(start * Unit, 10)
        b == float(last * Unit, 10)
        s == float(step * Unit, 10)
    IN (IF a < b THEN range_up_float(a, b, s) ELSE range_down_float(a, b, s))
       \o <<round_tenth(b)>>

compute_positions_float(start, end, step) ==
    plan_layers(range_rounded_float(start[3], end[3], step),
                range_rounded_float(start[1], end[1], step),
                range_rounded_float(start[2], end[2], step))

\* positions = compute_positions(start, end, step) with a float step
P_compute_float ==
    /\ ~grid.done
    /\ grid' = [grid EXCEPT !.out = compute_positions_float(grid.start, grid.stop, grid.step),
                            !.done = TRUE]
    /\ UNCHANGED <<station, safe_height, fw, rx, mc, wt>>

\* one call of range_rounded followed iteration by iteration: grid.start[1]
\* is the variable start, grid.out the list lst, grid.up the branch taken by
\* if start < stop; MaxSamples iterations are followed
MaxSamples == 2 * MaxTenth

range_goes_on == IF grid.up THEN grid.start[1] < grid.stop[1]
                 ELSE grid.start[1] > grid.stop[1]

\* lst.append(round(start, fp)); start += step (start -= step)
P_range_step ==
    /\ ~grid.done
    /\ range_goes_on
    /\ Len(grid.out) < MaxSamples
    /\ grid' = [grid EXCEPT
                   !.out = Append(@, round_tenth(grid.start[1])),
                   !.start[1] = IF grid.up THEN float(@ + grid.step, 1)
                                ELSE float(@ - grid.step, 1)]
    /\ UNCHANGED <<station, safe_height, fw, rx, mc, wt>>

\* the loop is over: lst.append(round(stop, fp)); return lst
P_range_return ==
    /\ ~grid.done
    /\ ~range_goes_on
    /\ grid' = [grid EXCEPT !.out = Append(@, round_tenth(grid.stop[1])), !.done = TRUE]
    /\ UNCHANGED <<station, safe_height, fw, rx, mc, wt>>

\* ---------------------------------------------------------------- shutdown
\* EMFIStation.__init__: KeyboardInterrupt ends ws.run() wherever the event
\* loop thread is, and the same thread calls ws.shutdown(); el_pc is then
\* "shutdown_join" while it waits in self.task.join() and "down" once
\* shutdown has returned.
ShutdownPcs == {"shutdown_join", "down"}

\* a shutdown that returns without waiting for the task
shutdown_without_join ==
    /\ el_pc' = "down"
    /\ running' = IF is_running(threads, task) /\ attack_enabled(mode) THEN FALSE ELSE running
    /\ UNCHANGED <<mode, threads, joy_running>>

\* WebSocketHelper.shutdown up to self.task.join()
shutdown ==
    IF is_running(threads, task)
    THEN /\ el_pc' = "shutdown_join"
         /\ IF joystick_enabled(mode)
            THEN /\ joy_running' = IF joystick THEN FALSE ELSE joy_running
                 /\ UNCHANGED <<running, threads>>
            ELSE IF attack_enabled(mode)
            THEN /\ running' = FALSE
                 /\ threads' = stop(threads, task)
                 /\ UNCHANGED joy_running
            ELSE UNCHANGED <<running, threads, joy_running>>
         /\ UNCHANGED mode
    ELSE /\ el_pc' = "down"
         /\ UNCHANGED <<mode, running, threads, joy_running>>

\* ws.run() is interrupted and ws.shutdown() is called
S_shutdown ==
    /\ el_pc \notin ShutdownPcs
    /\ shutdown
    /\ link' = link \ {EL}
    /\ UNCHANGED <<pad, snapshot, task, joystick, attack, progress, position,
                   safe_height, reply>>

\* self.task.join() has returned: disable_joystick and stop_attack set the
\* mode to Manual, and shutdown returns
S_joined ==
    /\ el_pc = "shutdown_join"
    /\ ~is_running(threads, task)
    /\ mode' = IF joystick_enabled(mode) \/ attack_enabled(mode) THEN MANUAL_MODE ELSE mode
    /\ el_pc' = "down"
    /\ UNCHANGED <<pad, snapshot, task, threads, joystick, joy_running, worker,
                   safe_height, link, reply>>

\* ------------------------------------------------------ clients and cameras
MaxClients == 2     \* connections made during one behaviour
MaxShots == 6       \* images one camera delivers
Capacity == 5       \* len(self.frames) == 5

Sockets == 1..MaxClients
Cameras == {"microscope", "calibration", "thermal_camera"}

\* Microscope.__init__ / ThermalCamera.__init__: cam (mlx) is None when the
\* device is missing; frames hold the images by their number
NewCamera(cam) ==
    [cam |-> cam, running |-> FALSE, pc |-> "none", frames |-> <<>>, shots |-> 0]

\* Microscope.start / ThermalCamera.start
thread_start(k) == [k EXCEPT !.running = TRUE, !.pc = "loop"]

\* the thread of a camera has not ended
capturing(k) == k.pc \in {"loop", "trim", "append"}

\* get_frame / get_last_frame have returned nothing yet
NoView == [pc |-> "idle", cam |-> "microscope", got |-> [kind |-> "none", n |-> 0]]

\* WebSocketHelper.__init__: three camera objects, the thermal one started
StudioWith(cams) ==
    /\ connected = {}
    /\ handlers = [s \in Sockets |-> "idle"]
    /\ cameras = [c \in Cameras |->
                    IF c = "thermal_camera" THEN thread_start(NewCamera(cams[c]))
                    ELSE NewCamera(cams[c])]
    /\ viewer = NoView

StudioInit == StudioWith([c \in Cameras |-> TRUE])

\* the event loop thread is inside neither a blocking join nor a frame read
loop_free ==
    /\ viewer.pc = "idle"
    /\ \A s \in Sockets : handlers[s] \notin {"stop_microscope", "stop_calibration"}

\* __connection_handler up to await self.__send_state_update(websocket);
\* on_first_connected starts both microscopes
C_connect(s) ==
    /\ loop_free
    /\ handlers[s] = "idle"
    /\ cameras' = IF connected = {}
                  THEN [cameras EXCEPT !["microscope"] = thread_start(@),
                                       !["calibration"] = thread_start(@)]
                  ELSE cameras
    /\ connected' = connected \cup {s}
    /\ handlers' = [handlers EXCEPT ![s] = "hello"]
    /\ UNCHANGED <<station_core, safe_height, fw, rx, mc, wt, grid, viewer>>

\* await websocket.send(state) of the initial state: it returns and the
\* handler enters the try block, or the connection is already closed and
\* send raises ConnectionClosed out of the handler
C_hello(s) ==
    /\ loop_free
    /\ handlers[s] = "hello"
    /\ \E sent \in BOOLEAN :
          handlers' = [handlers EXCEPT ![s] = IF sent THEN "serve" ELSE "failed"]
    /\ UNCHANGED <<station_core, safe_height, fw, rx, mc, wt, grid, connected,
                   cameras, viewer>>

\* asyncio.gather raises (the connection is closed); finally removes the
\* connection and on_last_disconnected stops the microscope: running = False
\* and thread.join()
C_close(s) ==
    /\ loop_free
    /\ handlers[s] = "serve"
    /\ connected' = connected \ {s}
    /\ IF connected' = {}
       THEN /\ cameras' = [cameras EXCEPT !["microscope"].running = FALSE]
            /\ handlers' = [handlers EXCEPT ![s] = "stop_microscope"]
       ELSE /\ handlers' = [handlers EXCEPT ![s] = "gone"]
            /\ UNCHANGED cameras
    /\ UNCHANGED <<station_core, safe_height, fw, rx, mc, wt, grid, viewer>>

\* microscope.stop() has joined; calibration.stop(): running = False and join
C_stop_calibration(s) ==
    /\ handlers[s] = "stop_microscope"
    /\ ~capturing(cameras["microscope"])
    /\ cameras' = [cameras EXCEPT !["calibration"].running = FALSE]
    /\ handlers' = [handlers EXCEPT ![s] = "stop_calibration"]
    /\ UNCHANGED <<station_core, safe_height, fw, rx, mc, wt, grid, connected, viewer>>

\* calibration.stop() has joined; the handler ends
C_stopped(s) ==
    /\ handlers[s] = "stop_calibration"
    /\ ~capturing(cameras["calibration"])
    /\ handlers' = [handlers EXCEPT ![s] = "gone"]
    /\ UNCHANGED <<station_core, safe_height, fw, rx, mc, wt, grid, connected,
                   cameras, viewer>>

\* __capture_loop: the device check and the loop condition, then cam.read()
\* (__cv_frame) delivers the next image
K_loop(c) ==
    /\ cameras[c].pc = "loop"
    /\ IF ~cameras[c].cam \/ ~cameras[c].running
       THEN cameras' = [cameras EXCEPT ![c].pc = "dead"]
       ELSE /\ cameras[c].shots < MaxShots
            /\ cameras' = [cameras EXCEPT ![c].pc = "trim", ![c].shots = @ + 1]
    /\ UNCHANGED <<station_core, safe_height, fw, rx, mc, wt, grid, connected,
                   handlers, viewer>>

\* a capture loop that never drops a frame
trim_never(frames) == frames

\* if len(self.frames) == 5: self.frames = self.frames[1:]
trim(frames) == IF Len(frames) = Capacity THEN Tail(frames) ELSE frames

K_trim(c) ==
    /\ cameras[c].pc = "trim"
    /\ cameras' = [cameras EXCEPT ![c].pc = "append", ![c].frames = trim(@)]
    /\ UNCHANGED <<station_core, safe_height, fw, rx, mc, wt, grid, connected,
                   handlers, viewer>>

\* self.frames.append(image)
K_append(c) ==
    /\ cameras[c].pc = "append"
    /\ cameras' = [cameras EXCEPT ![c].pc = "loop",
                                  ![c].frames = Append(@, cameras[c].shots)]
    /\ UNCHANGED <<station_core, safe_height, fw, rx, mc, wt, grid, connected,
                   handlers, viewer>>

\* get_frame / get_last_frame, called by the producers of a served
\* connection: len(self.frames) > 0, else the placeholder image
V_get(c) ==
    /\ loop_free
    /\ \E s \in Sockets : handlers[s] = "serve"
    /\ viewer' = IF Len(cameras[c].frames) > 0
                 THEN [viewer EXCEPT !.pc = "index", !.cam = c]
                 ELSE [pc |-> "idle", cam |-> c, got |-> [kind |-> "unavailable", n |-> 0]]
    /\ UNCHANGED <<station_core, safe_height, fw, rx, mc, wt, grid, connected,
                   handlers, cameras>>

\* self.frames[-1]
V_index ==
    /\ viewer.pc = "index"
    /\ LET frames == cameras[viewer.cam].frames IN
       viewer' = [viewer EXCEPT !.pc = "idle",
                     !.got = IF Len(frames) > 0
                             THEN [kind |-> "frame", n |-> frames[Len(frames)]]
                             ELSE [kind |-> "IndexError", n |-> 0]]
    /\ UNCHANGED <<station_core, safe_height, fw, rx, mc, wt, grid, connected,
                   handlers, cameras>>

\* ------------------------------------------------------------ specification
Init ==
    /\ mode = MANUAL_MODE
    /\ state_position = Origin
    /\ state_progress = Zero
    /\ state_safe_z = InitSafeHeight
    /\ task = NoTask
    /\ threads = [t \in Threads |-> FreeThread]
    /\ joystick = FALSE
    /\ joy_running = FALSE
    /\ attack = NoAttack
    /\ running = FALSE
    /\ progress = Zero
    /\ position = Origin
    /\ safe_height = InitSafeHeight
    /\ link = {}
    /\ el_pc = "idle"
    /\ reply = NoReply
    /\ stick = NewStick
    /\ jog = NoJog
    /\ fw = NoFw
    /\ rx = <<>>
    /\ mc = NoCall
    /\ wt = NoWait
    /\ grid = NoGrid
    /\ StudioInit

TaskNext ==
    \E t \in Tids :
        \/ Send(t) \/ Ack(t) \/ Timeout(t)
        \/ T_move(t) \/ T_home(t) \/ T_step_position(t) \/ T_step_relative_on(t)
        \/ T_step_move(t) \/ T_step_relative_off(t) \/ T_return(t)
        \/ R_start(t) \/ R_init(t) \/ R_home_xy(t) \/ R_start_x(t) \/ R_start_y(t)
        \/ R_start_z(t) \/ R_position(t) \/ R_moved(t) \/ R_repetition(t)
        \/ R_next_position(t) \/ R_shout(t) \/ R_critical_check(t)
        \/ R_critical(t) \/ R_check_temp(t) \/ R_shutdown(t) \/ R_close(t)

LoopNext ==
    \/ H_step \/ H_home \/ H_move \/ H_enableJoystick \/ H_disableJoystick
    \/ H_startAttack \/ H_stopAttack \/ H_safeZ \/ H_emergency
    \/ EL_joined \/ Poll \/ EL_position \/ EL_position_timeout

Next == TaskNext \/ LoopNext

Spec == Init /\ [][Next]_vars

\* Joystick.start: running = True and the thread of __loop is started
InitJoystick ==
    /\ mode = MANUAL_MODE
    /\ state_position = Origin
    /\ state_progress = Zero
    /\ state_safe_z = InitSafeHeight
    /\ task = NoTask
    /\ threads = [t \in Threads |->
                    IF t = JOY THEN [NewThread("joystick", Origin) EXCEPT !.pc = "wait"]
                    ELSE FreeThread]
    /\ joystick = TRUE
    /\ joy_running = TRUE
    /\ attack = NoAttack
    /\ running = FALSE
    /\ progress = Zero
    /\ position = Origin
    /\ safe_height = InitSafeHeight
    /\ link = {}
    /\ el_pc = "idle"
    /\ reply = NoReply
    /\ stick = NewStick
    /\ jog = NoJog
    /\ fw = NoFw
    /\ rx = <<>>
    /\ mc = NoCall
    /\ wt = NoWait
    /\ grid = NoGrid
    /\ StudioInit

JoystickNext ==
    \/ J_event \/ J_update \/ J_joined \/ J_button \/ J_type_error
    \/ J_relative_on \/ J_relative_move \/ J_relative_off \/ J_called
    \/ J_exit \/ JoyStop

JogNext == C_relative_on \/ C_move \/ C_relative_off \/ T_return(JOG)

LinkNext == \E t \in {JOY, JOG} : Send(t) \/ Ack(t) \/ Timeout(t)

NextJoystick == JoystickNext \/ JogNext \/ LinkNext

SpecJoystick == InitJoystick /\ [][NextJoystick]_vars

\* the station as WebSocketHelper.__init__ leaves it
StationInit ==
    /\ mode = MANUAL_MODE
    /\ state_position = Origin
    /\ state_progress = Zero
    /\ task = NoTask
    /\ threads = [t \in Threads |-> FreeThread]
    /\ joystick = FALSE
    /\ joy_running = FALSE
    /\ attack = NoAttack
    /\ running = FALSE
    /\ progress = Zero
    /\ position = Origin
    /\ link = {}
    /\ el_pc = "idle"
    /\ reply = NoReply
    /\ stick = NewStick
    /\ jog = NoJog
    /\ StudioInit

\* the stage is at the origin and the safe height is anywhere in its travel
InitMotion ==
    /\ StationInit
    /\ safe_height \in 0..(MaxZ - 1)
    /\ state_safe_z = safe_height
    /\ fw = NoFw
    /\ rx = <<>>
    /\ mc = NoCall
    /\ wt = NoWait
    /\ grid = NoGrid

NextMotion ==
    \/ \E a \in MoveCalls : M_move(a)
    \/ \E a \in RelativeCalls : M_relative_move(a)
    \/ M_cmd \/ M_clear \/ M_read \/ M_poll \/ M_drain \/ M_check \/ M_return
    \/ F_reply \/ F_settle \/ F_busy

SpecMotion == InitMotion /\ [][NextMotion]_vars

\* a caller of continuous_update and the jog thread it starts
InitJog ==
    /\ StationInit
    /\ safe_height = InitSafeHeight
    /\ state_safe_z = InitSafeHeight
    /\ fw = NoFw
    /\ rx = <<>>
    /\ mc = NoCall
    /\ wt = NoWait
    /\ grid = NoGrid

LinkJog == Send(JOG) \/ Ack(JOG) \/ Timeout(JOG)

SpecJog == InitJog /\ [][U_update \/ U_joined \/ JogNext \/ LinkJog]_vars

\* one run of the attack "High" has been dispatched, with the safe height
\* either at its default or set to 0 by the operator before the run
InitRun ==
    /\ mode = ATTACK_MODE
    /\ state_position = Origin
    /\ state_progress = Zero
    /\ task = 1
    /\ threads = [t \in Threads |-> IF t = 1 THEN NewThread("attack", Origin) ELSE FreeThread]
    /\ joystick = FALSE
    /\ joy_running = FALSE
    /\ attack = "High"
    /\ running = FALSE
    /\ progress = Zero
    /\ position = Origin
    /\ link = {}
    /\ el_pc = "idle"
    /\ reply = Reply("ok")
    /\ stick = NewStick
    /\ jog = NoJog
    /\ safe_height \in {0, InitSafeHeight}
    /\ state_safe_z = safe_height
    /\ fw = NoFw
    /\ rx = <<>>
    /\ mc = NoCall
    /\ wt = NoWait
    /\ grid = NoGrid
    /\ StudioInit

RunNext ==
    \E t \in Tids :
        \/ Send(t) \/ Ack(t) \/ Timeout(t)
        \/ R_start(t) \/ R_init(t) \/ R_home_xy(t) \/ R_start_x(t) \/ R_start_y(t)
        \/ R_start_z(t) \/ R_position(t) \/ R_moved(t) \/ R_repetition(t)
        \/ R_next_position(t) \/ R_shout(t) \/ R_critical_check(t)
        \/ R_critical(t) \/ R_check_temp(t) \/ R_shutdown(t) \/ R_close(t)

SpecRun == InitRun /\ [][RunNext]_vars

\* the same thread also starts attack runs
SpecStart == InitMotion /\ [][NextMotion \/ M_run_start]_vars

\* The threads run and a join returns once its thread has ended.  The state
\* broadcast is driven by its own timer, every second and whatever the clients
\* send: a broadcast that can find the task slot idle again and again does
\* find it idle at some time.
SpecPolled ==
    /\ Spec
    /\ WF_vars(TaskNext)
    /\ WF_vars(EL_joined)
    /\ SF_vars(Poll /\ ~is_running(threads, task))

\* the server until it is interrupted and shut down; the task's thread keeps
\* running while the main thread waits for it
ShutdownNext == S_shutdown \/ S_joined

SpecShutdown ==
    /\ Init
    /\ [][Next \/ ShutdownNext]_vars
    /\ WF_vars(TaskNext)
    /\ WF_vars(S_joined)

\* a wait that has just begun: counter = 0
InitWait ==
    /\ StationInit
    /\ safe_height = InitSafeHeight
    /\ state_safe_z = InitSafeHeight
    /\ fw = NoFw
    /\ rx = <<>>
    /\ mc = NoCall
    /\ wt = [NoWait EXCEPT !.state = "waiting"]
    /\ grid = NoGrid

SpecWait == InitWait /\ [][W_poll]_vars

\* the arguments of one call of compute_positions
InitPlan ==
    /\ StationInit
    /\ safe_height = InitSafeHeight
    /\ state_safe_z = InitSafeHeight
    /\ fw = NoFw
    /\ rx = <<>>
    /\ mc = NoCall
    /\ wt = NoWait
    /\ grid \in [start : Points, stop : Points, step : 1..MaxGrid,
                 out : {<<>>}, done : {FALSE}]

SpecPlan == InitPlan /\ [][P_compute]_vars

\* the arguments of one call of compute_positions, in tenths: a scan along X
\* and Y in the plane Z = 0
InitPlanFloat ==
    /\ StationInit
    /\ safe_height = InitSafeHeight
    /\ state_safe_z = InitSafeHeight
    /\ fw = NoFw
    /\ rx = <<>>
    /\ mc = NoCall
    /\ wt = NoWait
    /\ grid \in [start : {<<x, 0, 0>> : x \in 0..MaxTenth},
                 stop : {<<x, y, 0>> : x \in 0..MaxTenth, y \in 0..1},
                 step : 1..2, out : {<<>>}, done : {FALSE}]

SpecPlanFloat == InitPlanFloat /\ [][P_compute_float]_vars

\* the arguments of one call of range_rounded, in tenths: start is a tenth
\* or a whole number, stop at most MaxTenth tenths away from it, and the step
\* is 0.1 or 0.2
RangeStarts == (0..MaxTenth) \cup {10 * t : t \in 0..MaxTenth}

InitRange ==
    /\ StationInit
    /\ safe_height = InitSafeHeight
    /\ state_safe_z = InitSafeHeight
    /\ fw = NoFw
    /\ rx = <<>>
    /\ mc = NoCall
    /\ wt = NoWait
    /\ \E a \in RangeStarts, d \in (0 - MaxTenth)..MaxTenth, s \in 1..2 :
          LET b == a + d IN
          /\ b >= 0
          /\ grid = [start |-> <<float(a * Unit, 10), 0, 0>>,
                     stop |-> <<float(b * Unit, 10), 0, 0>>,
                     step |-> float(s * Unit, 10),
                     out |-> <<>>, done |-> FALSE, up |-> a < b]

SpecRange == InitRange /\ [][P_range_step \/ P_range_return]_vars

\* everything but the clients and the cameras, as __init__ leaves it
QuietInit ==
    /\ mode = MANUAL_MODE
    /\ state_position = Origin
    /\ state_progress = Zero
    /\ task = NoTask
    /\ threads = [t \in Threads |-> FreeThread]
    /\ joystick = FALSE
    /\ joy_running = FALSE
    /\ attack = NoAttack
    /\ running = FALSE
    /\ progress = Zero
    /\ position = Origin
    /\ link = {}
    /\ el_pc = "idle"
    /\ reply = NoReply
    /\ stick = NewStick
    /\ jog = NoJog
    /\ safe_height = InitSafeHeight
    /\ state_safe_z = InitSafeHeight
    /\ fw = NoFw
    /\ rx = <<>>
    /\ mc = NoCall
    /\ wt = NoWait
    /\ grid = NoGrid

\* a station without thermal sensor whose microscopes are attached or
\* missing, before the first client connects
InitConnect ==
    /\ QuietInit
    /\ \E cams \in [Cameras -> BOOLEAN] :
          ~cams["thermal_camera"] /\ StudioWith(cams)

\* a station whose cameras are attached or missing, one client being served:
\* on_first_connected has started the microscopes
InitCapture ==
    /\ QuietInit
    /\ connected = {1}
    /\ handlers = [s \in Sockets |-> IF s = 1 THEN "serve" ELSE "idle"]
    /\ \E cams \in [Cameras -> BOOLEAN] :
          cameras = [c \in Cameras |-> thread_start(NewCamera(cams[c]))]
    /\ viewer = NoView

ConnectionNext ==
    \E s \in Sockets :
        C_connect(s) \/ C_hello(s) \/ C_close(s) \/ C_stop_calibration(s) \/ C_stopped(s)

CaptureNext == \E c \in Cameras : K_loop(c) \/ K_trim(c) \/ K_append(c)

ViewNext == V_index \/ \E c \in Cameras : V_get(c)

SpecConnect == InitConnect /\ [][ConnectionNext \/ CaptureNext]_vars

SpecCapture == InitCapture /\ [][CaptureNext \/ ViewNext]_vars

\* ---------------------------------------------------------------- properties
ManualKinds == {"step", "home", "move"}

TaskAlive == is_running(threads, task)

AttackAlive == \E t \in Tids : threads[t].kind = "attack" /\ is_alive(threads[t])

BusyChecked == H_step \/ H_home \/ H_move \/ H_enableJoystick \/ H_startAttack \/ H_safeZ

\* C1: the only dispatched thread that can be alive is the one in the task slot,
\* so at most one dispatched task is alive and a dispatch never leaves a live
\* predecessor behind.
C1_OneLiveTask == \A t \in Tids : is_alive(threads[t]) => t = task

\* a task dispatched after an attack run had been dispatched and has ended
C1_Witness ==
    /\ TaskAlive
    /\ threads[task].kind \in ManualKinds
    /\ threads[task].pc = "begin"
    /\ attack # NoAttack

\* C2: never two threads inside a transport exchange at once.
C2_LinkExclusive == Cardinality(link) <= 1

C4_BusyRefused ==
    [][(BusyChecked /\ TaskAlive)
          => /\ reply' = Reply("busy")
             /\ UNCHANGED <<mode, snapshot, task, threads, joystick, joy_running,
                            worker, safe_height, link, el_pc, pad>>]_vars

\* a command has been refused while the task is still alive
C4_Witness == reply = Reply("busy") /\ TaskAlive

\* C5: step, home and move outside Manual mode return failure and start no task.
C5_ManualOnly ==
    [][((H_step \/ H_home \/ H_move) /\ mode # MANUAL_MODE)
          => /\ UNCHANGED <<task, threads>>
             /\ reply'.answer \in {"busy", "failed", "invalid"}]_vars

\* C6: while the attack run is alive the mode is Attack.
C6_AttackMode == AttackAlive => mode = ATTACK_MODE

\* C7: start_attack in Manual mode with a loadable attack dispatches the run and
\* sets the mode to Attack; stop_attack outside Attack mode returns failure and
\* changes nothing; when a stop has joined, the task is not alive and the mode
\* is Manual.
C7_StartStop ==
    [][LET Started ==
              \A name \in AttackNames :
                 (Received("startAttack") /\ ~TaskAlive /\ mode = MANUAL_MODE
                     /\ load_ok(name) /\ start_attack(name))
                 => /\ is_running(threads', task')
                    /\ threads'[task'] = NewThread("attack", Origin)
                    /\ mode' = ATTACK_MODE
                    /\ reply' = Reply("ok")
          NotAdmitted ==
              (H_stopAttack /\ mode # ATTACK_MODE)
              => /\ reply' = [answer |-> "failed", cmd |-> "stopAttack", mode |-> mode]
                 /\ UNCHANGED <<mode, task, threads, worker, joystick, joy_running,
                                safe_height, state_safe_z>>
          Admitted ==
              (H_stopAttack /\ mode = ATTACK_MODE)
              => ~running' /\ el_pc' = "join" /\ UNCHANGED <<mode, task>>
          Stopped ==
              EL_joined
              => ~is_running(threads', task') /\ mode' = MANUAL_MODE /\ reply' = Reply("ok")
      IN Started /\ NotAdmitted /\ Admitted /\ Stopped]_vars

\* a stopped run: the task is dead, the mode is Manual again
C7_Witness ==
    /\ task # NoTask
    /\ threads[task] = Dead("stopped")
    /\ mode = MANUAL_MODE
    /\ reply = Reply("ok")
    /\ el_pc = "idle"

\* C8: once stop() has been called the run starts no new repetition.
C8_StopObeyed ==
    [][\A t \in Tids :
          (threads[t].stopReq /\ threads[t].pc = "repetition")
             => threads'[t].pc # "reset_target"]_vars

C10_CooldownOnly ==
    [][\A t \in Tids :
          R_check_temp(t)
             => [threads'[t] EXCEPT !.hot = FALSE] =
                [threads[t] EXCEPT !.j = @ + 1, !.pc = "repetition", !.hot = FALSE]]_vars

\* a run that has cooled down and has gone through all its positions
C10_Witness ==
    /\ TaskAlive
    /\ threads[task].hot
    /\ threads[task].pc = "close"
    /\ Cardinality({k \in 1..Len(threads[task].calls) : threads[task].calls[k][1] = "shout"})
          = Len(threads[task].plan) * AttackOf(attack).repetitions

\* C11: is_safe_height(z) holds exactly when z is at most the safe height, and
\* a call of move whose target Z is above the safe height writes no command
\* and has nothing left to do: it returns with the controller as it was.
C11_UnsafeMoveIgnored ==
    /\ \A z \in -1..(MaxZ + 1) : is_safe_height(z, safe_height) <=> z <= safe_height
    /\ (mc.call = "move" /\ mc.arg[3] # None /\ mc.arg[3] > safe_height)
       => (mc.sent = <<>> /\ mc.todo = <<>> /\ mc.out \in {"none", "returned"})

\* a move above the safe height has returned
C11_Witness ==
    /\ mc.call = "move" /\ mc.arg[3] # None /\ mc.arg[3] > safe_height
    /\ mc.pc = "idle" /\ mc.out = "returned"

\* C12: relative_move validates the resulting absolute Z: once the current Z
\* plus the requested distance was found above the safe height no G0 is
\* written, and under a fixed safe height neither move nor relative_move ever
\* brings the stage above it.
C12_RelativeMoveSafe ==
    /\ fw.pos[3] <= safe_height
    /\ (mc.call = "relative_move" /\ mc.critical)
       => \A k \in 1..Len(mc.sent) : mc.sent[k].op # "G0"

\* the polls at the end of the log that read neither ok nor busy
RECURSIVE Silent(_)
Silent(log) ==
    IF log = <<>> THEN 0
    ELSE IF log[Len(log)] \in {OK_MSG.kind, BUSY_MSG.kind} THEN 0
    ELSE 1 + Silent(SubSeq(log, 1, Len(log) - 1))

\* C13: the wait ends successfully on ok, and it fails with a timeout exactly
\* when max_tries consecutive polls, counted from the start of the wait or from
\* the last busy, have read neither ok nor busy: not after fewer, not after more.
C13_TimeoutExact ==
    /\ wt.state = "ok" <=> (wt.log # <<>> /\ wt.log[Len(wt.log)] = OK_MSG.kind)
    /\ wt.state = "timeout" => Silent(wt.log) = max_tries
    /\ wt.state = "waiting" => Silent(wt.log) < max_tries

\* C14: when move has written its commands and returned normally, the firmware
\* has acknowledged the G0 and the M400 of this very move: no command is left
\* unanswered and the stage has stopped.  An ok left over from an earlier
\* command never stands in for one of them.
C14_MoveAcknowledged ==
    (mc.call = "move" /\ mc.pc = "idle" /\ mc.out = "returned" /\ mc.sent # <<>>)
    => (fw.queue = <<>> /\ ~fw.moving)

\* C15: an emergency stop request is admitted in every mode and whether or
\* not a task is alive: it is never answered with the busy error or with the
\* failure error, and its completion is confirmed.
C15_EmergencyAdmitted == [][H_emergency => reply' = Reply("ok")]_vars

C17_JoystickSession ==
    [][/\ (enable_joystick(TRUE) /\ mode = MANUAL_MODE /\ ~TaskAlive)
          => (/\ reply' = Reply("ok")
              /\ mode' = JOYSTICK_MODE
              /\ is_running(threads', task'))
       /\ (EL_joined /\ mode = JOYSTICK_MODE)
          => (mode' = MANUAL_MODE /\ ~is_running(threads', task'))]_vars

\* C18: a safeZ request is admitted in every mode and whether or not a task is
\* alive: it is never answered with the busy error, and the controller's safe
\* height and the snapshot's safe_z are equal after every step.
C18_SafeZAdmitted ==
    [][/\ H_safeZ => reply'.answer \in {"ok", "invalid"}
       /\ safe_height' = state_safe_z']_vars

\* C19: on every state broadcast, in Attack mode the snapshot's progress and
\* position are the executor's and the controller is not queried; in the other
\* modes the controller is queried for its position only when no task is
\* alive, and while a task is alive the snapshot's position stays as it was.
C19_PollSources ==
    [][Poll =>
         IF mode = ATTACK_MODE
         THEN /\ state_progress' = progress /\ state_position' = position
              /\ EL \notin link' /\ el_pc' = "idle"
         ELSE IF TaskAlive
         THEN /\ UNCHANGED <<state_position, state_progress>>
              /\ EL \notin link' /\ el_pc' = "idle"
         ELSE EL \in link' /\ el_pc' = "poll_query"]_vars

\* a broadcast has copied the progress of a live run into the snapshot
C19_Witness ==
    /\ mode = ATTACK_MODE /\ TaskAlive
    /\ state_progress = progress /\ progress.n > 0
    /\ state_position = position /\ position # Origin

\* C20: compute_positions((0,0,0), (2,2,0), 1) returns exactly the nine
\* positions (0,0,0) (0,1,0) (0,2,0) (1,2,0) (1,1,0) (1,0,0) (2,0,0) (2,1,0)
\* (2,2,0), in this order and without a duplicate.
C20_NinePositions ==
    (grid.done /\ grid.start = <<0, 0, 0>> /\ grid.stop = <<2, 2, 0>> /\ grid.step = 1)
    => /\ grid.out = << <<0, 0, 0>>, <<0, 1, 0>>, <<0, 2, 0>>,
                        <<1, 2, 0>>, <<1, 1, 0>>, <<1, 0, 0>>,
                        <<2, 0, 0>>, <<2, 1, 0>>, <<2, 2, 0>> >>
       /\ Cardinality({grid.out[k] : k \in 1..Len(grid.out)}) = Len(grid.out)

\* the plan of that scan has been computed
C20_Witness ==
    /\ grid.done /\ grid.start = <<0, 0, 0>> /\ grid.stop = <<2, 2, 0>> /\ grid.step = 1
    /\ Len(grid.out) = 9

\* the samples of one axis: from start towards stop in steps of step, and stop
Samples(start, last, step) ==
    {v \in 0..MaxTenth :
        \/ v = last
        \/ \E k \in 0..MaxTenth :
              IF start < last THEN v = start + k * step /\ v < last
              ELSE v = start - k * step /\ v > last}

\* C21: for every start, end and step > 0 the positions compute_positions
\* returns are the points of the grid Xs x Ys x Zs, each exactly once, so
\* there are |Xs| * |Ys| * |Zs| of them, and the first one is start.
C21_GridOnce ==
    grid.done =>
        LET Xs == Samples(grid.start[1], grid.stop[1], grid.step)
            Ys == Samples(grid.start[2], grid.stop[2], grid.step)
            Zs == Samples(grid.start[3], grid.stop[3], grid.step)
            out == grid.out
        IN /\ Len(out) = Cardinality(Xs) * Cardinality(Ys) * Cardinality(Zs)
           /\ {out[k] : k \in 1..Len(out)} = {<<x, y, z>> : x \in Xs, y \in Ys, z \in Zs}
           /\ out[1] = grid.start

\* C22: when the named attack cannot be constructed (its constructor lacks
\* required parameters, or no attack has that name) start_attack fails: the
\* reply is a failure, no task is dispatched, the mode stays Manual and the
\* executor's progress, position and running flag are unchanged.
C22_LoadFailure ==
    [][\A name \in {"Bad", "Nope"} :
          (Received("startAttack") /\ ~handler_busy("startAttack", threads, task)
              /\ mode = MANUAL_MODE /\ start_attack(name))
          => /\ reply' = [answer |-> "failed", cmd |-> "startAttack", mode |-> MANUAL_MODE]
             /\ mode' = MANUAL_MODE
             /\ UNCHANGED <<task, threads, attack, running, progress, position>>]_vars

\* start_attack has failed although the mode has been Manual all along
C22_Witness ==
    /\ reply = [answer |-> "failed", cmd |-> "startAttack", mode |-> MANUAL_MODE]
    /\ mode = MANUAL_MODE
    /\ task = NoTask

\* C23: every command gets an answer on its connection: an unknown cmd and a
\* malformed field value get an error reply, and no request and no failure of
\* the operation it triggers makes the handler raise, which would end the
\* connection without a reply.
C23_HandlerNeverRaises == reply.answer # "raised"

\* C24: the event-loop thread never performs an exchange on the serial link
\* itself and never waits for a dispatched task to finish: handlers and state
\* broadcasts leave the hardware work to the background task and return.
C24_LoopNeverBlocks == EL \notin link /\ el_pc # "join"

\* C25: shutdown() terminates, and when it has returned no dispatched task
\* is alive: a live task is stopped (joystick disabled in Joystick mode,
\* attack stopped in Attack mode) and joined.
C25_ShutdownJoins ==
    /\ [](el_pc = "down" => \A t \in Tids : ~is_alive(threads[t]))
    /\ (el_pc = "shutdown_join") ~> (el_pc = "down")

\* shutdown has returned after it stopped a run that was alive
C25_Witness ==
    /\ el_pc = "down"
    /\ task # NoTask
    /\ threads[task].out = "stopped"
    /\ mode = MANUAL_MODE

\* C26: progress is 0 from the start of a run until its first repetition,
\* is (i + j) / (N * R) while repetition j of the position of index i is
\* performed, and lies within [0, 1] in every state.
C26_Progress ==
    /\ progress.d > 0 /\ 0 <= progress.n /\ progress.n <= progress.d
    /\ \A t \in Tids :
          LET th == threads[t] IN
          (th.kind = "attack" /\ is_alive(th)) =>
             /\ (th.pc \in {"init", "home_xy", "start_x", "start_y", "start_z"}
                    \/ (th.pc \in {"position", "moved"} /\ th.i = 0))
                => progress = Zero
             /\ th.pc \in {"reset_target", "critical_check", "critical", "check_temp"}
                => progress = [n |-> th.i + th.j,
                               d |-> Len(th.plan) * AttackOf(attack).repetitions]

\* the last repetition of the last position is being performed
C26_Witness ==
    \E t \in Tids :
        /\ threads[t].pc = "check_temp"
        /\ threads[t].i = Len(threads[t].plan) - 1
        /\ threads[t].j = AttackOf(attack).repetitions - 1
        /\ threads[t].i > 0 /\ threads[t].j > 0
        /\ progress = [n |-> threads[t].i + threads[t].j,
                       d |-> Len(threads[t].plan) * AttackOf(attack).repetitions]

\* what a run has called after its start sequence, after it has finished the
\* first k positions of its plan with r repetitions each
Prelude ==
    <<Call("log_open"), Call("set_fan_speed"), Call("init"), Call("home_z"),
      Call("home_xy"), Call("start_x"), Call("start_y"), Call("start_z")>>

RECURSIVE Repetitions(_, _)
Repetitions(pos, r) ==
    IF r = 0 THEN <<>>
    ELSE Repetitions(pos, r - 1)
         \o <<CallAt("reset_target", pos), CallAt("shout", pos),
              CallAt("was_successful", pos), CallAt("critical_check", pos)>>

RECURSIVE Visits(_, _, _)
Visits(plan, k, r) ==
    IF k = 0 THEN <<>>
    ELSE Visits(plan, k - 1, r) \o <<CallAt("move", plan[k])>> \o Repetitions(plan[k], r)

\* C27: a run that is neither stopped nor aborted moves to each planned
\* position once, in plan order, and after each move performs R repetitions,
\* each one the running check, reset_target, shout, was_successful,
\* critical_check and the temperature check in this order: N * R shouts.
C27_RunSequence ==
    \A t \in Tids :
        LET th == threads[t]
            R == AttackOf(attack).repetitions
            pos == th.plan[th.i + 1]
            done == Prelude \o Visits(th.plan, th.i, R) \o <<CallAt("move", pos)>>
        IN (th.kind = "attack" /\ is_alive(th)) =>
              /\ th.pc = "reset_target" => th.calls = done \o Repetitions(pos, th.j)
              /\ th.pc = "check_temp" => th.calls = done \o Repetitions(pos, th.j + 1)
              /\ th.pc = "close"
                 => /\ th.i = Len(th.plan)
                    /\ th.calls = Prelude \o Visits(th.plan, Len(th.plan), R)
                                     \o <<Call("shutdown")>>

\* a run has gone through its whole plan: N * R shouts
C27_Witness ==
    \E t \in Tids :
        /\ threads[t].pc = "close"
        /\ Len(threads[t].plan) > 1
        /\ Cardinality({k \in 1..Len(threads[t].calls) : threads[t].calls[k][1] = "shout"})
              = Len(threads[t].plan) * AttackOf(attack).repetitions

\* how often a run has called the attack's shutdown
Shutdowns(th) == Cardinality({k \in 1..Len(th.calls) : th.calls[k] = Call("shutdown")})

StartCommands ==
    <<Cmd("M106"), G28(FALSE, FALSE, TRUE), G28(TRUE, TRUE, FALSE),
      G0(0, None, None), Cmd("M400"), G0(None, 0, None), Cmd("M400"),
      G0(None, None, 0), Cmd("M400")>>

\* C29: before its first repetition a run sets the fan speed, calls init,
\* homes Z, homes X and Y and moves to the start X, Y and Z in this order,
\* and sends no X/Y homing or move command before the firmware has
\* acknowledged the Z homing.
C29_StartSequence ==
    mc.call = "run_start" =>
        /\ Len(mc.sent) <= Len(StartCommands)
        /\ mc.sent = SubSeq(StartCommands, 1, Len(mc.sent))
        /\ Len(mc.sent) >= 3
           => \A k \in 1..Len(fw.queue) : fw.queue[k] # G28(FALSE, FALSE, TRUE)

RECURSIVE RelativeAfter(_, _)
RelativeAfter(queue, relative) ==
    IF queue = <<>> THEN relative
    ELSE RelativeAfter(Tail(queue),
                       IF Head(queue).op = "G91" THEN TRUE
                       ELSE IF Head(queue).op = "G90" THEN FALSE ELSE relative)

\* C31: relative_move leaves the firmware in absolute addressing mode on
\* every exit: after a completed move, after a move rejected for its Z and
\* after a timeout inside the move; a later absolute move is never taken as
\* a relative one.
C31_AbsoluteOnExit ==
    (mc.pc = "idle" /\ mc.call = "relative_move") => ~RelativeAfter(fw.queue, fw.relative)

\* C32: for any sequence of continuous_update calls the axes follow the
\* arguments (None keeps an axis, 0 halts it, +1/-1 moves it) and a jog
\* thread exists exactly while an axis is not 0: the first update that moves
\* an axis starts it, and an update that leaves all three axes at 0 stops
\* and joins it without error.
C32_JogThread ==
    /\ mc.out # "RuntimeError"
    /\ mc.pc = "idle" => (jog.obj /\ jog.running <=> ~cm_halted(jog.active))

\* two positions that differ in one axis only, by one sample of that axis
Adjacent(p, q, start, end, step) ==
    LET D == {a \in Axes : p[a] # q[a]} IN
    /\ Cardinality(D) = 1
    /\ \A a \in D :
          ~\E v \in Samples(start[a], end[a], step) :
                (p[a] < v /\ v < q[a]) \/ (q[a] < v /\ v < p[a])

\* C33: in the output of compute_positions every two consecutive positions
\* differ in exactly one axis, by one sample of that axis (Z slowest, then
\* X, Y fastest, Y reversed after each X and X after each Z layer), also
\* across layer boundaries and for any number of samples per axis.
C33_Serpentine ==
    grid.done =>
        \A k \in 1..(Len(grid.out) - 1) :
            Adjacent(grid.out[k], grid.out[k + 1], grid.start, grid.stop, grid.step)

\* C34: the position the executor reports changes only to a position the
\* controller has moved the stage to: a planned position whose move was
\* rejected because its Z is above the safe height is never reported.
C34_ReportedWasReached == position = Origin \/ is_safe_height(position[3], safe_height)

\* C35: get_position never raises to its caller because of what the reply
\* contains: a malformed reply (too few fields, or a field that is not a
\* number) gives the origin, a well-formed reply its three coordinates.
C35_PositionNeverRaises ==
    mc.call = "relative_move" => mc.out # "ValueError"

\* C36: the two microscope capture loops run exactly while a client is
\* connected, and the connected set holds only connections whose handler is
\* still at work, however a connection ended (a failure of the initial state
\* send included).
C36_LoopsWhileConnected ==
    loop_free =>
        /\ \A s \in connected : handlers[s] \in {"hello", "serve"}
        /\ \A c \in {"microscope", "calibration"} :
              cameras[c].running <=> connected # {}

\* the images a camera has appended so far
Appended(k) == IF k.pc \in {"trim", "append"} THEN k.shots - 1 ELSE k.shots

\* the buffer holds the newest images, oldest first, and at most Capacity
NewestKept(k) ==
    /\ Len(k.frames) <= Capacity
    /\ Len(k.frames) = IF Appended(k) < Capacity THEN Appended(k) ELSE Len(k.frames)
    /\ Len(k.frames) >= Capacity - 1 \/ Len(k.frames) = Appended(k)
    /\ \A i \in 1..Len(k.frames) : k.frames[i] = Appended(k) - Len(k.frames) + i

\* a read that returns leaves the buffers alone and hands out the newest image
\* of the buffer, or the placeholder when the buffer is empty
ReadReturns ==
    (viewer' # viewer) =>
        /\ cameras' = cameras
        /\ viewer'.pc = "idle" =>
              LET frames == cameras[viewer'.cam].frames IN
              viewer'.got = IF Len(frames) = 0
                            THEN [kind |-> "unavailable", n |-> 0]
                            ELSE [kind |-> "frame", n |-> frames[Len(frames)]]

\* C37: every capture buffer holds at most 5 frames, the newest ones in order
\* (a full buffer drops its oldest frame), a consumer never changes a buffer,
\* and a read returns the newest frame, or the placeholder when the buffer is
\* empty, however producer and consumer interleave.
C37_BoundedBuffer ==
    /\ [](\A c \in Cameras : NewestKept(cameras[c]))
    /\ [][ReadReturns]_vars

\* a full buffer has dropped its oldest frame and a read has returned its newest
C37_Witness ==
    \E c \in Cameras :
        /\ Len(cameras[c].frames) = Capacity
        /\ cameras[c].frames[1] > 1
        /\ viewer.pc = "idle" /\ viewer.cam = c
        /\ viewer.got = [kind |-> "frame", n |-> cameras[c].frames[Capacity]]

\* C38: once the joystick session has been disabled (running = False and the
\* join of the session thread has returned), neither the session thread nor a
\* jog thread started during the session is alive, whatever the deflection of
\* the axes was; a living jog thread is between its G91 and its G90, so the
\* firmware is then not in absolute addressing either.
C38_DisableStopsJog ==
    (~joy_running /\ ~is_alive(threads[JOY])) => ~is_alive(threads[JOG])

\* C39: during one attack run the reported progress never decreases from one
\* repetition to the next.
C39_ProgressMonotone ==
    [][progress.n * progress'.d <= progress'.n * progress.d]_vars

\* C40: compute_positions terminates for every start, end and step > 0: every
\* iteration of the loop of range_rounded brings start strictly closer to
\* stop (so the loop ends after finitely many samples), no sample lies beyond
\* stop, and the last sample is stop itself.
C40_Terminates ==
    /\ [](grid.done =>
            /\ grid.out[Len(grid.out)] = round_tenth(grid.stop[1])
            /\ \A k \in 1..Len(grid.out) :
                  IF grid.up THEN grid.out[k] <= round_tenth(grid.stop[1])
                  ELSE grid.out[k] >= round_tenth(grid.stop[1]))
    /\ [][(~grid.done /\ ~grid'.done) =>
            IF grid.up THEN grid'.start[1] > grid.start[1]
            ELSE grid'.start[1] < grid.start[1]]_vars

====
